---- MODULE Spec2Model ----
(***************************************************************************)
(* CortexDB gateway: the record ingestion pipeline of                      *)
(* gateway/core/records.py (RecordService.create_record, update_record,    *)
(* delete_record) over the three stores it coordinates: the relational     *)
(* table of one collection, the collection's bucket in the object store    *)
(* and the collection's points in the vector store.                        *)
(*                                                                         *)
(* One handler call is in flight at a time.  Every store or provider call  *)
(* of a handler is one step, because each is an await: it may raise, and   *)
(* the task may be cancelled while suspended in it.                        *)
(***************************************************************************)
EXTENDS Integers, Sequences, FiniteSets, TLC

\* ------------------------------------------------------------------ bounds
MaxCalls   == 3      \* handler calls started in one behaviour
MaxFaults  == 1      \* store errors / cancellations injected in one behaviour

\* ------------------------------------------------------- optional values
\* Python None and a present value v
None == <<>>
Some(v) == <<v>>

Max(a, b) == IF a >= b THEN a ELSE b
Min(a, b) == IF a <= b THEN a ELSE b

\* dict update: d1 overwritten by d2 ({**d1, **d2})
Merge(d1, d2) ==
  [k \in (DOMAIN d1) \cup (DOMAIN d2) |-> IF k \in DOMAIN d2 THEN d2[k] ELSE d1[k]]

EmptyDict == [k \in {} |-> None]

\* ------------------------------------------------------------- chunking
\* A text is a sequence of characters; " " is the only whitespace used.
RECURSIVE SplitFrom(_, _, _, _)
SplitFrom(text, i, cur, acc) ==
  IF i > Len(text)
    THEN (IF cur = <<>> THEN acc ELSE Append(acc, cur))
    ELSE IF text[i] = " "
      THEN SplitFrom(text, i + 1, <<>>, IF cur = <<>> THEN acc ELSE Append(acc, cur))
      ELSE SplitFrom(text, i + 1, Append(cur, text[i]), acc)

\* str.split(): the whitespace-separated tokens of a text
Split(text) == SplitFrom(text, 1, <<>>, <<>>)

RECURSIVE Join(_)
\* " ".join(tokens)
Join(tokens) ==
  IF tokens = <<>> THEN <<>>
  ELSE IF Len(tokens) = 1 THEN tokens[1]
  ELSE tokens[1] \o <<" ">> \o Join(Tail(tokens))

RECURSIVE ChunkLoop(_, _, _, _, _)
ChunkLoop(tokens, start, chunks, chunk_size, chunk_overlap) ==
  IF start >= Len(tokens) THEN chunks
  ELSE LET end == Min(Len(tokens), start + chunk_size)
           chunk_tokens == SubSeq(tokens, start + 1, end)
       IN IF chunk_tokens = <<>> THEN chunks
          ELSE LET chunks2 == Append(chunks, Join(chunk_tokens))
               IN IF end = Len(tokens) THEN chunks2
                  ELSE ChunkLoop(tokens, Max(0, end - chunk_overlap), chunks2,
                                 chunk_size, chunk_overlap)

\* mutant of chunk_text: an overlap >= size is replaced by half the size
chunk_text_half(text, chunk_size, chunk_overlap) ==
  LET overlap == IF chunk_overlap >= chunk_size
                   THEN Max(0, chunk_size \div 2) ELSE chunk_overlap
  IN ChunkLoop(Split(text), 0, <<>>, chunk_size, overlap)

\* chunk_text for chunk_size > 0
chunk_text(text, chunk_size, chunk_overlap) ==
  LET overlap == IF chunk_overlap >= chunk_size
                   THEN Max(0, chunk_size \div 4) ELSE chunk_overlap
  IN ChunkLoop(Split(text), 0, <<>>, chunk_size, overlap)

\* --------------------------------------------------------------- schema
\* The collection the handlers work on: a vectorised text field, a scalar
\* kept in the row and in the vector payload, a vectorised file field whose
\* path is stored in the row, a file field kept in the object store only, and
\* a string kept in the vector payload only.  year and sku are declared unique.
schema ==
  [ name   |-> "docs",
    fields |-> <<
      [name |-> "content", type |-> "text", required |-> FALSE, vectorize |-> TRUE,
       store_in |-> {"postgres"}, unique |-> FALSE],
      [name |-> "year", type |-> "int", required |-> FALSE, vectorize |-> FALSE,
       store_in |-> {"postgres", "qdrant_payload"}, unique |-> TRUE],
      [name |-> "doc", type |-> "file", required |-> FALSE, vectorize |-> TRUE,
       store_in |-> {"postgres", "minio"}, unique |-> FALSE],
      [name |-> "att", type |-> "file", required |-> FALSE, vectorize |-> FALSE,
       store_in |-> {"minio"}, unique |-> FALSE],
      [name |-> "sku", type |-> "string", required |-> FALSE, vectorize |-> FALSE,
       store_in |-> {"qdrant_payload"}, unique |-> TRUE] >>,
    config |-> [chunk_size |-> 2, chunk_overlap |-> 1] ]

NFields == Len(schema.fields)
Field(i) == schema.fields[i]
FieldNames == {Field(i).name : i \in 1..NFields}
FileFieldNames == {Field(i).name : i \in {j \in 1..NFields : Field(j).type = "file"}}
ScalarFieldNames == FieldNames \ FileFieldNames
FieldByName(n) == Field(CHOOSE i \in 1..NFields : Field(i).name = n)

\* columns of the collection's table: one per field stored in postgres
Columns ==
  {Field(i).name : i \in {j \in 1..NFields : /\ Field(j).type # "array"
                                              /\ "postgres" \in Field(j).store_in}}

\* postgres.py 233-240, 255-256: the columns created with UNIQUE; a field not
\* stored in postgres gets no column
UniqueColumns == { n \in Columns : FieldByName(n).unique }

\* field.vectorize or StoreLocation.QDRANT in field.store_in
Vectorised(f) == f.vectorize \/ "qdrant" \in f.store_in

\* ---------------------------------------------------------------- inputs
TextShort == <<"a">>
TextLong  == <<"a", " ", "b", " ", "c">>
Texts == {TextShort, TextLong}
\* a year as the request carries it, a string of characters
Years == {<<"2", "0", "2", "2">>}

\* uploaded files: filename, content type, and the text the pdf extractor
\* returns for the bytes
PdfFile   == [filename |-> "f1", content_type |-> "application/pdf", text |-> TextLong]
PlainFile == [filename |-> "f2", content_type |-> "text/plain", text |-> <<>>]
Uploads == {PdfFile, PlainFile}

\* the uploads a request may carry for a file field
UploadsFor(name) == IF FieldByName(name).vectorize THEN Uploads ELSE {PlainFile}

\* The record followed.  Every store is keyed by the record id (the row id,
\* the object path {collection}/{record_id}/..., the point id and the
\* record_id payload filter), so the handlers of two records share no key.
RecIds == {1}

\* request bodies: data holds a value for any subset of the scalar fields
MkData(c, y) ==
  LET dom == (IF c # None THEN {"content"} ELSE {}) \cup (IF y # None THEN {"year"} ELSE {})
  IN [n \in dom |-> IF n = "content" THEN c[1] ELSE y[1]]

DataInputs ==
  { MkData(c, y) : c \in {None} \cup {Some(t) : t \in Texts},
                   y \in {None} \cup {Some(n) : n \in Years} }

\* files holds an upload for any subset of the file fields
FileInputs ==
  { f \in UNION { [S -> Uploads] : S \in SUBSET FileFieldNames } :
      \A n \in DOMAIN f : f[n] \in UploadsFor(n) }

\* ------------------------------------------------------- pure helpers
\* _convert_value for the field types of the schema
DigitChars == <<"0", "1", "2", "3", "4", "5", "6", "7", "8", "9">>

DigitOf(ch) == (CHOOSE d \in 1..Len(DigitChars) : DigitChars[d] = ch) - 1

\* whether int() accepts the string: decimal digits only, at least one
IsNumeral(str) ==
  /\ Len(str) > 0
  /\ \A k \in 1..Len(str) : \E d \in 1..Len(DigitChars) : DigitChars[d] = str[k]

\* int() of a string of decimal digits
RECURSIVE ParseInt(_)
ParseInt(str) ==
  IF Len(str) = 0 THEN 0
  ELSE Len(DigitChars) * ParseInt(SubSeq(str, 1, Len(str) - 1)) + DigitOf(str[Len(str)])

\* _convert_value 582-583: int(value) raises ValueError
ConvertRaises(field, value) == field.type = "int" /\ ~IsNumeral(value)

convert_value(field, value) ==
  CASE field.type \in {"string", "text", "file"} -> value
    [] field.type = "int" -> ParseInt(value)
    [] OTHER -> value

\* _serialize_for_payload: only dates change
serialize_for_payload(value) == value

\* f"{schema.name}/{record_id}/{upload.filename}"
ObjectPath(rid, upload) == <<schema.name, rid, upload.filename>>

\* uuid.uuid5(NAMESPACE_DNS, f"{record_id}:{field}:{idx}"), chunk indices from 0
PointId(rid, fname, idx) == <<rid, fname, idx>>

\* the payload dict of one point: the five base keys, then **payload_base
PointPayload(rid, fname, idx, text, payload_base) ==
  Merge([record_id |-> Some(rid), collection |-> Some(schema.name),
         field |-> Some(fname), chunk_index |-> Some(idx), text |-> Some(text)],
        payload_base)

\* the QdrantPoint list built from the fragments of one field
BuildPoints(rid, fname, fragments, payload_base) ==
  { [id |-> PointId(rid, fname, idx - 1),
     payload |-> PointPayload(rid, fname, idx - 1, fragments[idx], payload_base)]
    : idx \in 1..Len(fragments) }

\* the text fragments _handle_file_field returns once the upload is stored
FileFragments(field, upload) ==
  IF ~field.vectorize THEN <<>>
  ELSE IF upload.content_type = "application/pdf"
    THEN (IF upload.text # <<>>
            THEN chunk_text(upload.text, schema.config.chunk_size, schema.config.chunk_overlap)
            ELSE <<>>)
    ELSE << <<"File uploaded: ", upload.filename>> >>

\* _build_initial_payload_base
build_initial_payload_base(data) ==
  LET keys == { n \in ScalarFieldNames :
                  /\ "qdrant_payload" \in FieldByName(n).store_in
                  /\ n \in DOMAIN data
                  /\ ~ConvertRaises(FieldByName(n), data[n]) }
  IN [n \in keys |-> Some(serialize_for_payload(convert_value(FieldByName(n), data[n])))]

\* vector-store semantics: upsert overwrites points by id
Upsert(pts, new) == {p \in pts : p.id \notin {q.id : q \in new}} \cup new

\* vector-store semantics: delete by payload filter record_id = ?
DeleteByRecord(pts, rid) ==
  {p \in pts : ~("record_id" \in DOMAIN p.payload /\ p.payload["record_id"] = Some(rid))}

\* mutant of DeleteByRecordField: the filter matches nothing, so the old
\* points of the field survive the update
DeleteByRecordField_keep(pts, rid, fname) == pts

\* vector-store semantics: delete by payload filter record_id = ? AND field = ?
DeleteByRecordField(pts, rid, fname) ==
  {p \in pts : ~(/\ p.payload["record_id"] = Some(rid)
                 /\ p.payload["field"] = Some(fname))}

\* ------------------------------------------------------------- bounds
MaxSize    == 4      \* largest chunk_size passed to chunk_text
MaxOverlap == 5      \* largest chunk_overlap passed to chunk_text
MaxRuns    == 3      \* runs of the migration runner in one behaviour
MaxStartups == 2     \* startups of the gateway in one behaviour

\* ---------------------------------------------------------------- state
VARIABLES
  rows,      \* relational table: record id -> row (column -> optional value) or NoRow
  bucket,    \* object store: the object paths present in the collection's bucket
  points,    \* vector store: the points of the collection
  call,      \* the handler call in flight: its inputs, locals and position
  last,      \* what the most recently returned call reported
  fileOf,    \* record id -> file field -> the upload a committed row's value denotes
  clean,     \* record ids on which every call so far returned successfully
  nextId,    \* next record id uuid4 hands out
  ncalls,    \* calls started
  faults,    \* store errors and cancellations injected
  vcoll,     \* vector store: whether the collection the handlers address exists
  other,     \* a second handler call, suspended at an await while call runs
  emb,       \* embeddings module: service cache, instances, requests in flight
  api_keys,  \* table api_keys: key id -> optional row
  key_cache, \* auth_cache.APIKeyCache: _cache entries and _last_cleanup
  now,       \* the clock, in seconds
  issued,    \* key id -> the plaintext key its holder was given, if any
  resp,      \* the response to the most recent /api-keys or collection request
  header,    \* the Authorization header the client sends with record requests
  notes,     \* a collection with an array field: its tables and what was submitted
  chunked,   \* a call of chunk_text: its arguments and, once returned, its chunks
  parsed,    \* the schema document last posted and what parse_schema made of it
  migr,      \* the migrations directory, table schema_migrations and the runner
  boot,      \* the startups of the gateway and what each bootstrap found and wrote
  named,     \* the vector collections and buckets by name, and the names operations used
  prepared,  \* a call of _prepare_record: its schema and inputs and the points it built
  searching, \* a search in flight: the points the vector store returned to it
  loop,      \* the while loop of a call of chunk_text: its locals
  dbs,       \* the registry _cortex_databases, the physical databases and the calls on them
  arr        \* the child rows of an array field of a record and the updates of it

\* the state of the calls of library functions and start-up routines
\* the state of the calls followed on their own
unitVars == <<prepared, searching, loop, dbs, arr>>

libVars == <<chunked, parsed, migr, boot, named, unitVars>>

\* the state of the modules beside the record handlers
extVars == <<emb, api_keys, key_cache, now, issued, resp, header, notes, libVars>>

\* the state outside the stores and the running handler call
sideVars == <<vcoll, other, extVars>>

authVars == <<api_keys, key_cache, now, issued, resp, header>>

\* the stores and the record handler calls
storeVars == <<rows, bucket, points, call, last, fileOf, clean, nextId, ncalls, faults,
               vcoll, other, notes, libVars>>

\* ------------------------------------------------------ embeddings module
\* embeddings.py 58, 61: the provider ids requests name; None selects the
\* default provider, cached under _DEFAULT_PROVIDER_KEY
ProviderIds == {None, Some("p1"), Some("p2")}

\* embeddings.py 62
cache_key(provider_id) == IF provider_id = None THEN "__default__" ELSE provider_id[1]

CacheKeys == { cache_key(p) : p \in ProviderIds }

\* the requests that use the embeddings module concurrently
Requests == {1, 2}

\* the length of the vector the provider returns
Dim == 3

NoRequest == [pc |-> "new", key |-> "none", service |-> 0]

\* embeddings.py 25, 57: no service cached, no instance built, no probe sent
EmbInit ==
  [services  |-> [k \in CacheKeys |-> None],
   built     |-> <<>>,
   dimension |-> <<>>,
   probes    |-> [k \in CacheKeys |-> 0],
   req       |-> [q \in Requests |-> NoRequest]]

\* ------------------------------------------------------------- API keys
MaxKeys  == 2      \* rows the api_keys table comes to hold in one behaviour
MaxTicks == 2      \* the clock runs up to MaxTicks * ttl seconds

KeyIds == 1..MaxKeys

\* auth.py 117, auth_cache.py 15: seconds a cached key is served
ttl == 300
\* auth_cache.py 23
cleanup_interval == 60
\* api_key.py 40, bootstrap.py 48: characters of the key kept as key_prefix
PrefixLen == 25
\* api_key.py 30: secrets.token_hex(32)
TokenBytes == 32

Take(str, n) == SubSeq(str, 1, Min(n, Len(str)))

\* api_key.py 82-97
get_type_prefix(key_type) ==
  CASE key_type = "admin"    -> <<"a", "d", "m", "i", "n">>
    [] key_type = "database" -> <<"l", "i", "v", "e">>
    [] key_type = "readonly" -> <<"t", "e", "s", "t">>

KeyTypes == {"admin", "database", "readonly"}

\* the hexadecimal digit the random part of the n-th generated key is made of
HexDigits == <<"a", "b", "c", "d">>

\* api_key.py 30: 2 * TokenBytes hexadecimal characters, different for
\* every key generated
token_hex(n) == [j \in 1..(2 * TokenBytes) |-> HexDigits[n]]

\* api_key.py 45-58: the SHA-256 digest of a key, a value that determines
\* the key and holds none of its characters
hash_api_key(api_key) == [sha256 |-> api_key]

\* api_key.py 40, bootstrap.py 48
key_prefix_of(full_key) == Take(full_key, PrefixLen) \o <<".", ".", ".">>

\* api_key.py 10-42
generate_api_key(key_type, n) ==
  LET full_key == <<"c", "o", "r", "t", "e", "x", "d", "b", "_">>
                    \o get_type_prefix(key_type) \o <<"_">> \o token_hex(n)
  IN [full_key |-> full_key, key_hash |-> hash_api_key(full_key),
      key_prefix |-> key_prefix_of(full_key)]

\* bootstrap.py 40: CORTEXDB_ADMIN_KEY as the operator may set it, or unset
EnvKeys == {None, Some(<<"s", "3", "c", "r", "e", "t">>)}

Databases == {"d1", "d2"}

\* api_keys.py 320-361, bootstrap.py 57-65 (the manage_* flags follow admin
\* and are read by no handler)
build_permissions(key_type, databases) ==
  [admin |-> key_type = "admin", readonly |-> key_type = "readonly",
   databases |-> IF key_type = "admin" THEN {} ELSE databases]

NoResponse ==
  [endpoint |-> "none", status |-> 0, authorization |-> None, current_key |-> None,
   valid_at_request |-> FALSE, body |-> <<>>]

EmptyCache == [entries |-> {}, last_cleanup |-> 0]

\* before the gateway has started: no key, nothing cached
AuthInit ==
  /\ api_keys = [i \in KeyIds |-> None]
  /\ key_cache = EmptyCache
  /\ now = 0
  /\ issued = [i \in KeyIds |-> None]
  /\ resp = NoResponse
  /\ header = None

\* ------------------------------------------- a collection with an array
Uppers == <<"A", "B", "C", "D", "E", "F", "G", "H", "I", "J", "K", "L", "M",
            "N", "O", "P", "Q", "R", "S", "T", "U", "V", "W", "X", "Y", "Z">>
Lowers == <<"a", "b", "c", "d", "e", "f", "g", "h", "i", "j", "k", "l", "m",
            "n", "o", "p", "q", "r", "s", "t", "u", "v", "w", "x", "y", "z">>

\* str.lower()
lower(str) ==
  [k \in 1..Len(str) |->
     IF \E u \in 1..Len(Uppers) : Uppers[u] = str[k]
     THEN Lowers[CHOOSE u \in 1..Len(Uppers) : Uppers[u] = str[k]]
     ELSE str[k]]

\* postgres.py 17-19
sanitize_identifier(identifier) == lower(identifier)

NotesName == <<"n", "o", "t", "e", "s">>

\* the names the array field of the collection may have (schema.py 57-63
\* admits upper-case letters)
ArrayFieldNames == {<<"t", "a", "g", "s">>, <<"T", "a", "g", "s">>}

\* the nested schema of the array field: two optional strings
NestedNames == {"label", "rank"}

NoteIds == {1, 2}

\* postgres.py 263-265: the child table create_collection makes for the field
build_array_table(collection, field_name) ==
  sanitize_identifier(collection) \o <<"_">> \o lower(field_name)

\* the collection as create_collection leaves it for an array field name
NotesInit(field_name) ==
  [field     |-> field_name,
   tables    |-> {build_array_table(NotesName, field_name)},
   main      |-> [i \in NoteIds |-> None],
   child     |-> {},
   submitted |-> [i \in NoteIds |-> None]]

\* chunking.py 6: no call of chunk_text made
NoChunking ==
  [text |-> <<>>, chunk_size |-> 1, chunk_overlap |-> 0, returned |-> FALSE,
   chunks |-> <<>>]

\* api/collections.py 19-22: no schema document posted
NoParse == [data |-> [name |-> "none", fields |-> <<>>], outcome |-> "none"]

\* migrations.py 17, 24-33: the SQL files shipped, named by their numeric
\* prefix, and an empty table schema_migrations; committed counts how often
\* the SQL of a file was committed and this_run lists what the run applied
MigrationFiles == {1, 2, 3}

\* main.py 18-22: every gateway process runs the migrations when it starts
Runners == {"w1", "w2"}

NoRun == [pc |-> "idle", pending |-> <<>>, this_run |-> <<>>, raised |-> None]

MigrInit ==
  [files |-> {2}, schema_migrations |-> {},
   committed |-> [f \in MigrationFiles |-> 0],
   runner |-> [w \in Runners |-> NoRun],
   runs |-> 0, failures |-> 0]

\* main.py 24-27: the gateway has not started yet
NoBoot == [startups |-> 0, admin_count |-> 0, inserted |-> FALSE, created |-> <<>>]

\* the operations on the records of a collection
RecordOps == {"create", "update", "delete", "get_vectors", "search"}

\* no collection created: no vector collection, no bucket, no name used
NoNames ==
  [schema |-> None, qdrant |-> {}, minio |-> {}, created |-> None, dropped |-> None,
   addressed |-> [op \in RecordOps |-> None]]

\* no call of _prepare_record yet
NoPrepared ==
  [returned |-> FALSE, schema |-> schema, record_id |-> 0, data |-> EmptyDict,
   files |-> EmptyDict, file_paths |-> EmptyDict, qdrant_points |-> {}]

\* no search in flight
NoSearching ==
  [pc |-> "idle", filters |-> None, limit |-> 0, qdrant_results |-> <<>>, present |-> {}]

\* no call of chunk_text in its loop
NoLoop ==
  [pc |-> "idle", tokens |-> <<>>, chunk_size |-> 1, given_overlap |-> 0,
   chunk_overlap |-> 0, start |-> 0, chunks |-> <<>>]

\* postgres.py 560: the databases of the server before any create_database,
\* the one the admin connection opens
ServerDatabases == {"postgres"}

\* no create_database or delete_database call under way
NoDatabaseCall == [op |-> "none", name |-> "none", pc |-> "idle", registry_before |-> {}]

\* no database registered, the server's own databases, no call on them
NoDatabases ==
  [registry |-> {}, physical |-> ServerDatabases, call |-> NoDatabaseCall, failures |-> 0]

\* the update calls on the array field of one record
Updaters == {"u1", "u2"}

\* the child rows insert_array_items writes for a list: item_index from 0
ChildRows(items) == [k \in 1..Len(items) |-> [item_index |-> k - 1, item |-> items[k]]]

\* the list the record was created with
PreviousItems == <<"p", "q">>

\* records.py 437-441: no update of the array field under way
IdleUpdater == [pc |-> "idle", items |-> <<>>, inserted |-> 0]

\* the child rows of the record as create left them, no update of them
NoArray ==
  [child |-> ChildRows(PreviousItems), calls |-> [u \in Updaters |-> IdleUpdater],
   supplied |-> {}, failures |-> 0, interleaved |-> FALSE]

UnitInit ==
  /\ prepared = NoPrepared /\ searching = NoSearching /\ loop = NoLoop
  /\ dbs = NoDatabases /\ arr = NoArray

LibInit ==
  /\ chunked = NoChunking /\ parsed = NoParse /\ migr = MigrInit /\ boot = NoBoot
  /\ named = NoNames /\ UnitInit

ExtInit == emb = EmbInit /\ LibInit /\ AuthInit /\ notes = NotesInit(<<"t", "a", "g", "s">>)

vars == <<rows, bucket, points, call, last, fileOf, clean, nextId, ncalls, faults,
          sideVars>>

NoRow == <<"no row">>

Idle ==
  [op |-> "idle", pc |-> "idle", rid |-> 0, data |-> EmptyDict, files |-> EmptyDict,
   i |-> 0, postgres_data |-> EmptyDict, payload_base |-> EmptyDict,
   qdrant_points |-> {}, file_paths |-> <<>>, fragments |-> <<>>,
   current |-> NoRow, old_path |-> None, failed |-> "none",
   uploaded |-> {}, removed |-> {}, writes |-> <<>>, rm_failed |-> FALSE]

NoneYet ==
  [op |-> "none", rid |-> 0, outcome |-> "none", stage |-> "none", i |-> 0,
   uploaded |-> {}, rm_failed |-> FALSE, writes |-> <<>>, current |-> NoRow,
   data |-> EmptyDict, files |-> EmptyDict,
   snap_row |-> NoRow, snap_points |-> {},
   repeat |-> FALSE, prev_row |-> NoRow, prev_points |-> {}]

Init ==
  /\ rows = [r \in RecIds |-> NoRow]
  /\ bucket = {}
  /\ points = {}
  /\ call = Idle
  /\ last = NoneYet
  /\ fileOf = [r \in RecIds |-> [n \in FileFieldNames |-> None]]
  /\ clean = {}
  /\ nextId = 1
  /\ ncalls = 0
  /\ faults = 0
  /\ vcoll = TRUE
  /\ other = Idle
  /\ ExtInit

\* a store call either succeeds or raises; raising spends one injected fault
Outcome(ok) ==
  /\ ok \in BOOLEAN
  /\ (~ok => faults < MaxFaults)
  /\ faults' = IF ok THEN faults ELSE faults + 1

\* the points whose payload names the record
PointsOf(pts, rid) == {p \in pts : p.payload["record_id"] = Some(rid)}

\* a new call starts: what the previous call reported is dropped, except that
\* an update repeating the successful update that directly precedes it keeps
\* the row and points that one left
Forget(l, op, rid, data, files) ==
  IF /\ op = "update" /\ l.op = "update" /\ l.outcome = "ok"
     /\ l.rid = rid /\ l.data = data /\ l.files = files
    THEN [NoneYet EXCEPT !.repeat = TRUE, !.prev_row = l.snap_row,
                         !.prev_points = l.snap_points]
    ELSE NoneYet

\* the call returns (or raises) to its caller.  last records what the caller
\* can observe: the outcome, the store writes the call made, and for a
\* successful update the row and points it left
ReturnWith(outcome, stage, writes, rm_failed) ==
  LET upd_ok == call.op = "update" /\ outcome = "ok" IN
  /\ last' = [op |-> call.op, rid |-> call.rid, outcome |-> outcome, stage |-> stage,
              i |-> call.i, uploaded |-> call.uploaded, rm_failed |-> rm_failed,
              writes |-> writes, current |-> call.current,
              data |-> IF upd_ok THEN call.data ELSE EmptyDict,
              files |-> IF upd_ok THEN call.files ELSE EmptyDict,
              snap_row |-> IF upd_ok THEN rows'[call.rid] ELSE NoRow,
              snap_points |-> IF upd_ok THEN PointsOf(points', call.rid) ELSE {},
              repeat |-> upd_ok /\ last.repeat,
              prev_row |-> IF upd_ok THEN last.prev_row ELSE NoRow,
              prev_points |-> IF upd_ok THEN last.prev_points ELSE {}]
  /\ call' = Idle
  /\ clean' = IF outcome = "ok"
                THEN (IF call.op = "create" THEN clean \cup {call.rid} ELSE clean)
                ELSE clean \ {call.rid}

\* row.get(name): the column value, None when NULL or when there is no column
RowGet(row, name) == IF name \in Columns THEN row[name] ELSE None

Return(outcome, stage, writes) == ReturnWith(outcome, stage, writes, call.rm_failed)

\* a field the loop over schema.fields does something for: create skips a
\* field without value unless it is required (114-121, 162-168), update skips
\* a field the request does not name (346-351), delete skips all but the
\* file fields with a path in the row (302-303)
Touched(c, field) ==
  IF c.op = "delete" THEN field.type = "file" /\ RowGet(c.current, field.name) # None ELSE
  \/ field.type = "file" /\ field.name \in DOMAIN c.files
  \/ field.type # "file" /\ field.name \in DOMAIN c.data
  \/ c.op = "create" /\ field.required

\* the loop moves on to the next field it does something for, or ends
NextField(c, after) ==
  LET todo == {j \in (c.i + 1)..NFields : Touched(c, Field(j))} IN
  IF todo = {}
    THEN [c EXCEPT !.i = NFields + 1, !.pc = after, !.fragments = <<>>]
    ELSE [c EXCEPT !.i = CHOOSE j \in todo : \A k \in todo : j <= k,
                   !.pc = "field", !.fragments = <<>>]

\* =========================================================== create_record
\* records.py 43-60: schema lookup, embedding service, record_id = uuid4(),
\* and the start of _prepare_record (payload_base from the request data)
StartCreate(data, files) ==
  /\ call.op = "idle"
  /\ ncalls < MaxCalls
  /\ nextId \in DOMAIN rows
  /\ call' = NextField([Idle EXCEPT !.op = "create", !.rid = nextId,
                                    !.data = data, !.files = files,
                                    !.payload_base = build_initial_payload_base(data)],
                        "insert")
  /\ last' = Forget(last, "create", nextId, data, files)
  /\ nextId' = nextId + 1
  /\ ncalls' = ncalls + 1
  /\ UNCHANGED <<rows, bucket, points, fileOf, clean, faults>>
  /\ UNCHANGED sideVars

\* _handle_file_field 522-524: the extractor is called only for a vectorised pdf
Extracts(field, upload) == field.vectorize /\ upload.content_type = "application/pdf"

\* _prepare_record 130-160: after _handle_file_field returned, the path goes to
\* file_paths, the row data and the payload base; fragments go on to embedding
CreateFileDone(c) ==
  LET field == Field(c.i)
      upload == c.files[field.name]
      path == ObjectPath(c.rid, upload)
      text_fragments == FileFragments(field, upload)
      c1 == [c EXCEPT
               !.file_paths = Append(c.file_paths, path),
               !.postgres_data = IF "postgres" \in field.store_in
                                   THEN Merge(c.postgres_data, [n \in {field.name} |-> path])
                                   ELSE c.postgres_data,
               !.payload_base = IF "qdrant_payload" \in field.store_in
                                  THEN Merge(c.payload_base, [n \in {field.name} |-> Some(path)])
                                  ELSE c.payload_base]
  IN IF text_fragments # <<>> /\ Vectorised(field)
       THEN [c1 EXCEPT !.pc = "embed", !.fragments = text_fragments]
       ELSE NextField(c1, "insert")

\* _prepare_record 118-121 and _handle_file_field 505-520: a required file
\* field without upload is a ValueError; else ensure_bucket and upload_stream
CreateUpload(ok) ==
  /\ call.op = "create" /\ call.pc = "field"
  /\ Field(call.i).type = "file"
  /\ Outcome(ok)
  /\ (~ok => Field(call.i).name \in DOMAIN call.files)
  /\ LET path == ObjectPath(call.rid, call.files[Field(call.i).name]) IN
     IF Field(call.i).name \notin DOMAIN call.files
       THEN /\ UNCHANGED <<rows, bucket, points>>
            /\ Return("error", "validate", call.writes)
     ELSE IF ok
       THEN /\ bucket' = bucket \cup {path}
            /\ LET c1 == [call EXCEPT !.pc = "extract",
                                      !.uploaded = call.uploaded \cup {path},
                                      !.writes = Append(call.writes, "put")]
               IN call' = IF Extracts(Field(call.i), call.files[Field(call.i).name])
                            THEN c1 ELSE CreateFileDone(c1)
            /\ UNCHANGED <<rows, points, last, clean>>
       ELSE /\ UNCHANGED <<rows, bucket, points>>
            /\ Return("error", "upload", call.writes)
  /\ UNCHANGED <<fileOf, nextId, ncalls>>
  /\ UNCHANGED sideVars

\* _handle_file_field 522-537: text extraction of a vectorised pdf
CreateExtract(ok) ==
  /\ call.op = "create" /\ call.pc = "extract"
  /\ Outcome(ok)
  /\ IF ok
       THEN call' = CreateFileDone(call) /\ UNCHANGED <<last, clean>>
       ELSE Return("error", "extract", call.writes)
  /\ UNCHANGED <<rows, bucket, points, fileOf, nextId, ncalls>>
  /\ UNCHANGED sideVars

\* _prepare_record 162-185: a scalar field: default / required / skip, conversion,
\* routing to the row data and the payload base, chunking of a vectorised value
CreateScalar ==
  /\ call.op = "create" /\ call.pc = "field"
  /\ Field(call.i).type # "file"
  /\ LET field == Field(call.i) IN
     IF \/ field.name \notin DOMAIN call.data
        \/ ConvertRaises(field, call.data[field.name])
       THEN /\ UNCHANGED <<rows, points>>
            /\ Return("error", "validate", call.writes)
       ELSE LET converted == convert_value(field, call.data[field.name])
                c1 == [call EXCEPT
                         !.postgres_data = IF "postgres" \in field.store_in
                                             THEN Merge(call.postgres_data,
                                                        [n \in {field.name} |-> converted])
                                             ELSE call.postgres_data,
                         !.payload_base = IF "qdrant_payload" \in field.store_in
                                            THEN Merge(call.payload_base,
                                                       [n \in {field.name} |->
                                                          Some(serialize_for_payload(converted))])
                                            ELSE call.payload_base]
            IN /\ call' = IF Vectorised(field)
                            THEN [c1 EXCEPT !.pc = "embed",
                                            !.fragments = chunk_text(converted,
                                                                     schema.config.chunk_size,
                                                                     schema.config.chunk_overlap)]
                            ELSE NextField(c1, "insert")
               /\ UNCHANGED <<rows, points, last, clean>>
  /\ UNCHANGED <<bucket, fileOf, nextId, ncalls, faults>>
  /\ UNCHANGED sideVars

\* _prepare_record 137-159 and 186-207: embed the fragments of the field and
\* append one point per fragment
CreateEmbed(ok) ==
  /\ call.op = "create" /\ call.pc = "embed"
  /\ Outcome(ok)
  /\ (~ok => call.fragments # <<>>)
  /\ IF ok
       THEN /\ call' = NextField(
                 [call EXCEPT !.qdrant_points =
                    call.qdrant_points \cup
                    BuildPoints(call.rid, Field(call.i).name, call.fragments, call.payload_base)],
                 "insert")
            /\ UNCHANGED <<last, clean>>
       ELSE Return("error", "embed", call.writes)
  /\ UNCHANGED <<rows, bucket, points, fileOf, nextId, ncalls>>
  /\ UNCHANGED sideVars

\* the row INSERT writes: every column, NULL where the data has no value
RowOf(data) == [c \in Columns |-> IF c \in DOMAIN data THEN Some(data[c]) ELSE None]

\* the except block of create_record starts: file_paths.values() are to be removed
EnterRollback(c, stage) ==
  [c EXCEPT !.pc = "rollback", !.failed = stage]

\* the upload a file column value denotes once the row is written
FilesWritten(old, c) ==
  [n \in FileFieldNames |->
     IF n \in DOMAIN c.postgres_data /\ n \in DOMAIN c.files THEN Some(c.files[n]) ELSE old[n]]

\* create_record 64 / postgres.insert_record: the row (and child rows) in one
\* transaction
\* postgres.py 320-362, 437-451: the INSERT or UPDATE breaks a UNIQUE
\* constraint when another row holds the value in that column
UniqueViolation(rid, postgres_data) ==
  \E r \in DOMAIN rows \ {rid}, c \in UniqueColumns \cap DOMAIN postgres_data :
    rows[r] # NoRow /\ rows[r][c] = Some(postgres_data[c])

CreateInsert(ok) ==
  /\ call.op = "create" /\ call.pc = "insert"
  /\ Outcome(ok)
  /\ IF /\ ok /\ DOMAIN call.postgres_data \subseteq Columns
        /\ ~UniqueViolation(call.rid, call.postgres_data)
       THEN /\ rows' = [rows EXCEPT ![call.rid] = RowOf(call.postgres_data)]
            /\ fileOf' = [fileOf EXCEPT ![call.rid] = FilesWritten(fileOf[call.rid], call)]
            /\ UNCHANGED <<bucket, points>>
            /\ IF call.qdrant_points # {}
                 THEN /\ call' = [call EXCEPT !.pc = "upsert",
                                              !.writes = Append(call.writes, "rel")]
                      /\ UNCHANGED <<last, clean>>
                 ELSE Return("ok", "done", Append(call.writes, "rel"))
       ELSE /\ UNCHANGED <<rows, fileOf, bucket, points>>
            /\ IF call.file_paths # <<>>
                 THEN call' = EnterRollback(call, "insert")
                      /\ UNCHANGED <<last, clean>>
                 ELSE Return("error", "insert", call.writes)
  /\ UNCHANGED <<nextId, ncalls>>
  /\ UNCHANGED sideVars

\* create_record 65-69: ensure_collection_exists, then upsert_points
CreateUpsert(ok) ==
  /\ call.op = "create" /\ call.pc = "upsert"
  /\ vcoll
  /\ Outcome(ok)
  /\ IF ok
       THEN /\ points' = Upsert(points, call.qdrant_points)
            /\ UNCHANGED <<rows, bucket>>
            /\ Return("ok", "done", Append(call.writes, "vups"))
       ELSE /\ UNCHANGED <<rows, bucket, points>>
            /\ IF call.file_paths # <<>>
                 THEN call' = EnterRollback(call, "upsert")
                      /\ UNCHANGED <<last, clean>>
                 ELSE Return("error", "upsert", call.writes)
  /\ UNCHANGED <<fileOf, nextId, ncalls>>
  /\ UNCHANGED sideVars

\* create_record 70-78: remove_object for the next uploaded path, a failure
\* of the removal is logged and swallowed; after the last path the error is
\* re-raised
CreateRollback(ok) ==
  /\ call.op = "create" /\ call.pc = "rollback"
  /\ Outcome(ok)
  /\ LET path == Head(call.file_paths)
         c1 == [call EXCEPT !.file_paths = Tail(call.file_paths),
                            !.rm_failed = call.rm_failed \/ ~ok,
                            !.writes = IF ok THEN Append(call.writes, "undo") ELSE call.writes]
     IN /\ bucket' = IF ok THEN bucket \ {path} ELSE bucket
        /\ UNCHANGED <<rows, points>>
        /\ IF c1.file_paths = <<>>
             THEN ReturnWith("error", call.failed, c1.writes, c1.rm_failed)
             ELSE call' = c1 /\ UNCHANGED <<last, clean>>
  /\ UNCHANGED <<fileOf, nextId, ncalls>>
  /\ UNCHANGED sideVars

\* =========================================================== update_record
\* the fields whose store_in lists the vector payload
PayloadFieldNames ==
  {Field(i).name : i \in {j \in 1..NFields : "qdrant_payload" \in Field(j).store_in}}

\* update_record 313-322 and delete_record 293-296: the call is accepted
StartUpdate(rid, data, files) ==
  /\ call.op = "idle"
  /\ ncalls < MaxCalls
  /\ rid \in DOMAIN rows /\ rid < nextId
  /\ call' = [Idle EXCEPT !.op = "update", !.pc = "fetch", !.rid = rid,
                          !.data = data, !.files = files]
  /\ last' = Forget(last, "update", rid, data, files)
  /\ ncalls' = ncalls + 1
  /\ UNCHANGED <<rows, bucket, points, fileOf, clean, nextId, faults>>
  /\ UNCHANGED sideVars

StartDelete(rid) ==
  /\ call.op = "idle"
  /\ ncalls < MaxCalls
  /\ rid \in DOMAIN rows /\ rid < nextId
  /\ call' = [Idle EXCEPT !.op = "delete", !.pc = "fetch", !.rid = rid]
  /\ last' = Forget(last, "delete", rid, EmptyDict, EmptyDict)
  /\ ncalls' = ncalls + 1
  /\ UNCHANGED <<rows, bucket, points, fileOf, clean, nextId, faults>>
  /\ UNCHANGED sideVars

\* update_record 324-331 and delete_record 298-300: fetch_record; a missing
\* row is "Record not found"; update snapshots the payload fields of the row
FetchCurrent ==
  /\ call.op \in {"update", "delete"} /\ call.pc = "fetch"
  /\ IF rows[call.rid] = NoRow
       THEN /\ UNCHANGED <<rows, points>>
            /\ Return("error", "not_found", call.writes)
       ELSE /\ call' = NextField(
                          [call EXCEPT
                             !.current = rows[call.rid],
                             !.payload_base =
                                IF call.op = "update"
                                  THEN [n \in PayloadFieldNames |-> RowGet(rows[call.rid], n)]
                                  ELSE EmptyDict],
                          IF call.op = "update" THEN "row" ELSE "vectors")
            /\ UNCHANGED <<rows, points, last, clean>>
  /\ UNCHANGED <<bucket, fileOf, nextId, ncalls, faults>>
  /\ UNCHANGED sideVars

has_file_update(c, field) == field.type = "file" /\ field.name \in DOMAIN c.files
has_value_update(c, field) == field.name \in DOMAIN c.data

\* update_record 364-369: after _handle_file_field returned, the new path goes
\* to postgres_updates whatever the field's store_in
UpdateFileDone(c) ==
  LET field == Field(c.i)
      upload == c.files[field.name]
      path == ObjectPath(c.rid, upload)
  IN [c EXCEPT
        !.file_paths = Append(c.file_paths, path),
        !.postgres_data = Merge(c.postgres_data, [n \in {field.name} |-> path]),
        !.payload_base = IF "qdrant_payload" \in field.store_in
                           THEN Merge(c.payload_base, [n \in {field.name} |-> Some(path)])
                           ELSE c.payload_base,
        !.fragments = FileFragments(field, upload),
        !.pc = IF c.old_path # None THEN "rm_old" ELSE "del_field"]

\* update_record 353-356 / _handle_file_field 505-520: upload of the new file
UpdateUpload(ok) ==
  /\ call.op = "update" /\ call.pc = "field"
  /\ has_file_update(call, Field(call.i))
  /\ Outcome(ok)
  /\ LET path == ObjectPath(call.rid, call.files[Field(call.i).name]) IN
     IF ok
       THEN /\ bucket' = bucket \cup {path}
            /\ LET c1 == [call EXCEPT !.pc = "extract",
                                      !.old_path = RowGet(call.current, Field(call.i).name),
                                      !.uploaded = call.uploaded \cup {path},
                                      !.writes = Append(call.writes, "put")]
               IN call' = IF Extracts(Field(call.i), call.files[Field(call.i).name])
                            THEN c1 ELSE UpdateFileDone(c1)
            /\ UNCHANGED <<rows, points, last, clean>>
       ELSE /\ UNCHANGED <<rows, bucket, points>>
            /\ Return("error", "upload", call.writes)
  /\ UNCHANGED <<fileOf, nextId, ncalls>>
  /\ UNCHANGED sideVars

\* _handle_file_field 522-537: text extraction of a vectorised pdf
UpdateExtract(ok) ==
  /\ call.op = "update" /\ call.pc = "extract"
  /\ Outcome(ok)
  /\ IF ok
       THEN call' = UpdateFileDone(call) /\ UNCHANGED <<last, clean>>
       ELSE Return("error", "extract", call.writes)
  /\ UNCHANGED <<rows, bucket, points, fileOf, nextId, ncalls>>
  /\ UNCHANGED sideVars

\* update_record 369-373: remove_object of the old path; a failure is logged
\* and swallowed
UpdateRemoveOld(ok) ==
  /\ call.op = "update" /\ call.pc = "rm_old"
  /\ Outcome(ok)
  /\ bucket' = IF ok THEN bucket \ {call.old_path[1]} ELSE bucket
  /\ call' = [call EXCEPT !.pc = "del_field",
                          !.removed = IF ok THEN call.removed \cup {call.old_path[1]}
                                            ELSE call.removed,
                          !.rm_failed = call.rm_failed \/ ~ok,
                          !.writes = IF ok THEN Append(call.writes, "rm") ELSE call.writes]
  /\ UNCHANGED <<rows, points, last, fileOf, clean, nextId, ncalls>>
  /\ UNCHANGED sideVars

\* update_record 406-412: a scalar field with a new value: conversion, routing
\* to postgres_updates and payload_base, chunking of a vectorised value
UpdateScalar ==
  /\ call.op = "update" /\ call.pc = "field"
  /\ ~has_file_update(call, Field(call.i)) /\ has_value_update(call, Field(call.i))
  /\ LET field == Field(call.i)
         converted == convert_value(field, call.data[field.name])
         c1 == IF "postgres" \in field.store_in
                 THEN [call EXCEPT
                         !.postgres_data = Merge(call.postgres_data,
                                                 [n \in {field.name} |-> converted]),
                         !.payload_base = Merge(call.payload_base,
                                                [n \in {field.name} |->
                                                   Some(serialize_for_payload(converted))])]
                 ELSE call
     IN IF ConvertRaises(field, call.data[field.name])
          THEN Return("error", "validate", call.writes)
          ELSE /\ call' = IF Vectorised(field)
                           THEN [c1 EXCEPT !.pc = "del_field",
                                           !.fragments = chunk_text(converted,
                                                                    schema.config.chunk_size,
                                                                    schema.config.chunk_overlap)]
                           ELSE NextField(c1, "row")
               /\ UNCHANGED <<last, clean>>
  /\ UNCHANGED <<rows, bucket, points, fileOf, nextId, ncalls, faults>>
  /\ UNCHANGED sideVars

\* update_record 375 and 413 / qdrant.delete_record_field: the points of the
\* field are deleted by payload filter
UpdateDeleteField(ok) ==
  /\ call.op = "update" /\ call.pc = "del_field"
  /\ Outcome(ok)
  /\ IF ok
       THEN /\ points' = DeleteByRecordField(points, call.rid, Field(call.i).name)
            /\ call' = LET c1 == [call EXCEPT !.writes = Append(call.writes, "vdel")] IN
                       IF Field(call.i).type = "file"
                            /\ ~(call.fragments # <<>> /\ Vectorised(Field(call.i)))
                         THEN NextField(c1, "row")
                         ELSE [c1 EXCEPT !.pc = "embed"]
            /\ UNCHANGED <<rows, last, clean>>
       ELSE /\ UNCHANGED <<rows, points>>
            /\ Return("error", "del_field", call.writes)
  /\ UNCHANGED <<bucket, fileOf, nextId, ncalls>>
  /\ UNCHANGED sideVars

\* update_record 376-398 and 414-435: embed the fragments, one point each
UpdateEmbed(ok) ==
  /\ call.op = "update" /\ call.pc = "embed"
  /\ Outcome(ok)
  /\ (~ok => call.fragments # <<>>)
  /\ IF ok
       THEN /\ call' = NextField(
                 [call EXCEPT !.qdrant_points =
                    call.qdrant_points \cup
                    BuildPoints(call.rid, Field(call.i).name, call.fragments, call.payload_base)],
                 "row")
            /\ UNCHANGED <<last, clean>>
       ELSE Return("error", "embed", call.writes)
  /\ UNCHANGED <<rows, bucket, points, fileOf, nextId, ncalls>>
  /\ UNCHANGED sideVars

\* update_record 437-438 / postgres.update_record: UPDATE ... SET of the
\* changed columns; a key that is not a column makes the statement fail
UpdateRow(ok) ==
  /\ call.op = "update" /\ call.pc = "row"
  /\ Outcome(ok)
  /\ (~ok => DOMAIN call.postgres_data # {})
  /\ IF /\ ok /\ DOMAIN call.postgres_data \subseteq Columns
        /\ ~UniqueViolation(call.rid, call.postgres_data)
       THEN /\ rows' = IF rows[call.rid] = NoRow THEN rows
                       ELSE [rows EXCEPT ![call.rid] =
                               Merge(rows[call.rid],
                                     [n \in DOMAIN call.postgres_data |->
                                        Some(call.postgres_data[n])])]
            /\ fileOf' = [fileOf EXCEPT ![call.rid] = FilesWritten(fileOf[call.rid], call)]
            /\ UNCHANGED <<bucket, points>>
            /\ LET w == IF DOMAIN call.postgres_data # {}
                          THEN Append(call.writes, "rel") ELSE call.writes
               IN IF call.qdrant_points # {}
                    THEN /\ call' = [call EXCEPT !.pc = "upsert", !.writes = w]
                         /\ UNCHANGED <<last, clean>>
                    ELSE Return("ok", "done", w)
       ELSE /\ UNCHANGED <<rows, fileOf, bucket, points>>
            /\ Return("error", "row", call.writes)
  /\ UNCHANGED <<nextId, ncalls>>
  /\ UNCHANGED sideVars

\* update_record 444-445: upsert of the points of the touched fields
UpdateUpsert(ok) ==
  /\ call.op = "update" /\ call.pc = "upsert"
  /\ Outcome(ok)
  /\ IF ok
       THEN /\ points' = Upsert(points, call.qdrant_points)
            /\ UNCHANGED <<rows, bucket>>
            /\ Return("ok", "done", Append(call.writes, "vups"))
       ELSE /\ UNCHANGED <<rows, bucket, points>>
            /\ Return("error", "upsert", call.writes)
  /\ UNCHANGED <<fileOf, nextId, ncalls>>
  /\ UNCHANGED sideVars

\* =========================================================== delete_record
\* delete_record 302-308: for each file field with a truthy row value,
\* remove_object; a failure is logged and swallowed
DeleteBlob(ok) ==
  /\ call.op = "delete" /\ call.pc = "field"
  /\ Outcome(ok)
  /\ LET value == RowGet(call.current, Field(call.i).name) IN
        /\ bucket' = IF ok THEN bucket \ {value[1]} ELSE bucket
        /\ call' = NextField([call EXCEPT
                                !.rm_failed = call.rm_failed \/ ~ok,
                                !.writes = IF ok THEN Append(call.writes, "rm")
                                                 ELSE call.writes],
                             "vectors")
  /\ UNCHANGED <<rows, points, last, fileOf, clean, nextId, ncalls>>
  /\ UNCHANGED sideVars

\* delete_record 310 / qdrant.delete_record: delete by payload filter record_id
DeleteVectors(ok) ==
  /\ call.op = "delete" /\ call.pc = "vectors"
  /\ Outcome(ok)
  /\ IF ok
       THEN /\ points' = DeleteByRecord(points, call.rid)
            /\ call' = [call EXCEPT !.pc = "row", !.writes = Append(call.writes, "vdel")]
            /\ UNCHANGED <<rows, last, clean>>
       ELSE /\ UNCHANGED <<rows, points>>
            /\ Return("error", "vectors", call.writes)
  /\ UNCHANGED <<bucket, fileOf, nextId, ncalls>>
  /\ UNCHANGED sideVars

\* delete_record 311 / postgres.delete_record: DELETE of the row
DeleteRow(ok) ==
  /\ call.op = "delete" /\ call.pc = "row"
  /\ Outcome(ok)
  /\ IF ok
       THEN /\ rows' = [rows EXCEPT ![call.rid] = NoRow]
            /\ fileOf' = [fileOf EXCEPT ![call.rid] = [n \in FileFieldNames |-> None]]
            /\ UNCHANGED <<bucket, points>>
            /\ Return("ok", "done", Append(call.writes, "rel"))
       ELSE /\ UNCHANGED <<rows, fileOf, bucket, points>>
            /\ Return("error", "row", call.writes)
  /\ UNCHANGED <<nextId, ncalls>>
  /\ UNCHANGED sideVars

\* the task is cancelled while suspended in an await: CancelledError is not an
\* Exception, so no except block of the handlers runs
Cancel ==
  /\ call.op # "idle"
  /\ faults < MaxFaults
  /\ faults' = faults + 1
  /\ UNCHANGED <<rows, bucket, points>>
  /\ Return("cancelled", call.pc, call.writes)
  /\ UNCHANGED <<fileOf, nextId, ncalls>>
  /\ UNCHANGED sideVars

\* ====================================================== concurrent handlers
\* asyncio runs one task at a time and leaves it only at an await: the running
\* call is suspended where it stands and the other call is resumed
Switch ==
  /\ call # other
  /\ call' = other
  /\ other' = call
  /\ UNCHANGED <<rows, bucket, points, last, fileOf, clean, nextId, ncalls, faults, vcoll, extVars>>

\* qdrant.py 139-146 (records.py 68): get_collection raises in
\* ensure_collection_exists, the collection is missing
CreateEnsure ==
  /\ call.op = "create" /\ call.pc = "upsert"
  /\ ~vcoll
  /\ call' = [call EXCEPT !.pc = "byname"]
  /\ UNCHANGED <<rows, bucket, points, last, fileOf, clean, nextId, ncalls, faults>>
  /\ UNCHANGED sideVars

\* qdrant.py 95-102: create_collection_by_name looks the collection up again
\* and goes on to create it only when that lookup raises
CreateByName ==
  /\ call.op = "create" /\ call.pc = "byname"
  /\ call' = [call EXCEPT !.pc = IF vcoll THEN "upsert" ELSE "recreate"]
  /\ UNCHANGED <<rows, bucket, points, last, fileOf, clean, nextId, ncalls, faults>>
  /\ UNCHANGED sideVars

\* qdrant.py 103-107: recreate_collection drops the collection of that name
\* with every point in it and creates it empty (the update_collection and
\* create_payload_index calls that follow change no point)
CreateRecreate ==
  /\ call.op = "create" /\ call.pc = "recreate"
  /\ points' = {}
  /\ vcoll' = TRUE
  /\ call' = [call EXCEPT !.pc = "upsert", !.writes = Append(call.writes, "vnew")]
  /\ UNCHANGED <<rows, bucket, last, fileOf, clean, nextId, ncalls, faults, other, extVars>>

Next ==
  \/ \E d \in DataInputs, f \in FileInputs : StartCreate(d, f)
  \/ \E ok \in BOOLEAN : CreateUpload(ok)
  \/ \E ok \in BOOLEAN : CreateExtract(ok)
  \/ CreateScalar
  \/ \E ok \in BOOLEAN : CreateEmbed(ok)
  \/ \E ok \in BOOLEAN : CreateInsert(ok)
  \/ \E ok \in BOOLEAN : CreateUpsert(ok)
  \/ \E ok \in BOOLEAN : CreateRollback(ok)
  \/ \E r \in RecIds, d \in DataInputs, f \in FileInputs : StartUpdate(r, d, f)
  \/ \E r \in RecIds : StartDelete(r)
  \/ FetchCurrent
  \/ \E ok \in BOOLEAN : UpdateUpload(ok)
  \/ \E ok \in BOOLEAN : UpdateExtract(ok)
  \/ \E ok \in BOOLEAN : UpdateRemoveOld(ok)
  \/ UpdateScalar
  \/ \E ok \in BOOLEAN : UpdateDeleteField(ok)
  \/ \E ok \in BOOLEAN : UpdateEmbed(ok)
  \/ \E ok \in BOOLEAN : UpdateRow(ok)
  \/ \E ok \in BOOLEAN : UpdateUpsert(ok)
  \/ \E ok \in BOOLEAN : DeleteBlob(ok)
  \/ \E ok \in BOOLEAN : DeleteVectors(ok)
  \/ \E ok \in BOOLEAN : DeleteRow(ok)
  \/ Cancel

Spec == Init /\ [][Next]_vars

\* ------------------------------------------- two concurrent create calls
\* the record ids of two creates
PairIds == {1, 2}

\* the requests of the concurrent creates: a text, with or without a pdf
PairData == { MkData(Some(t), None) : t \in Texts }
PairFiles == { f \in FileInputs : DOMAIN f \subseteq {"doc"} /\ \A n \in DOMAIN f : f[n] = PdfFile }

\* The first records of a collection whose vector collection does not exist
\* yet under the name the handlers use (collections.py 61-66 creates it as
\* {database}__{collection} for a collection owned by a database, records.py
\* 68-69 addresses {collection}).  No store call fails.
InitCreates ==
  /\ rows = [r \in PairIds |-> NoRow]
  /\ bucket = {}
  /\ points = {}
  /\ call = Idle
  /\ last = NoneYet
  /\ fileOf = [r \in PairIds |-> [n \in FileFieldNames |-> None]]
  /\ clean = {}
  /\ nextId = 1
  /\ ncalls = 0
  /\ faults = MaxFaults
  /\ vcoll = FALSE
  /\ other = Idle
  /\ ExtInit

NextCreates ==
  \/ \E d \in PairData, f \in PairFiles : StartCreate(d, f)
  \/ \E ok \in BOOLEAN : CreateUpload(ok)
  \/ \E ok \in BOOLEAN : CreateExtract(ok)
  \/ CreateScalar
  \/ \E ok \in BOOLEAN : CreateEmbed(ok)
  \/ \E ok \in BOOLEAN : CreateInsert(ok)
  \/ \E ok \in BOOLEAN : CreateUpsert(ok)
  \/ CreateEnsure
  \/ CreateByName
  \/ CreateRecreate
  \/ Switch

SpecCreates == InitCreates /\ [][NextCreates]_vars

\* ================================================================= claims
\* the object paths of the bucket that lie under {collection}/{record_id}/
BlobsUnder(rid) == {path \in bucket : path[2] = rid}

\* the file columns of a row all reference objects present in the bucket
RowBlobsExist(row) ==
  \A n \in FileFieldNames \cap Columns : row[n] # None => row[n][1] \in bucket

\* C1: create with two file fields whose second upload fails: the call fails,
\* no row exists and the blob uploaded for the first file field is gone from
\* the bucket when the call has returned
C1_SecondUploadFailureUndoesFirst ==
  (/\ last.op = "create" /\ last.outcome = "error" /\ last.stage = "upload"
   /\ last.uploaded # {})
  => /\ rows[last.rid] = NoRow
     /\ last.uploaded \cap bucket = {}

\* C2: create failing in text extraction, embedding or the relational insert
\* after a blob upload: when the call returns, every blob it uploaded is
\* deleted (the object store accepting the deletes) and no row exists
C2_PreCommitFailureUndoesBlobs ==
  (/\ last.op = "create" /\ last.outcome = "error"
   /\ last.stage \in {"extract", "embed", "insert"}
   /\ last.uploaded # {} /\ ~last.rm_failed)
  => /\ rows[last.rid] = NoRow
     /\ last.uploaded \cap bucket = {}

\* C3: create failing in the vector-collection creation or the vector upsert
\* after the relational insert committed: nothing is rolled back, the row
\* remains and every blob it references is still in the bucket
C3_PostCommitFailureKeepsBlobs ==
  (last.op = "create" /\ last.outcome = "error" /\ last.stage = "upsert")
  => /\ rows[last.rid] # NoRow
     /\ RowBlobsExist(rows[last.rid])
     /\ last.uploaded \subseteq bucket

\* C4: between calls, after any sequence of create, update and delete calls
\* (failed ones included), every non-null file column of every row references
\* an object that exists in the bucket
C4_FileValuesReferenceBlobs ==
  call.op = "idle" => \A r \in RecIds : rows[r] # NoRow => RowBlobsExist(rows[r])

\* C5: after delete(record_id) returned successfully, no vector point has
\* payload.record_id = record_id and no blob lives under
\* {collection}/{record_id}/, whatever the store_in of the file fields and
\* even when a blob removal raised
C5_DeleteLeavesNothing ==
  (last.op = "delete" /\ last.outcome = "ok")
  => /\ PointsOf(points, last.rid) = {}
     /\ BlobsUnder(last.rid) = {}

\* the ids of the points stored for a record
PointIdsOf(rid) == {p.id : p \in PointsOf(points, rid)}

\* the chunks of the current value of a vectorised field of a stored record:
\* of the text in the row, or of the file the row's path was written for
CurrentFragments(rid, field) ==
  IF RowGet(rows[rid], field.name) = None THEN <<>>
  ELSE IF field.type = "file"
    THEN FileFragments(field, fileOf[rid][field.name][1])
    ELSE chunk_text(rows[rid][field.name][1], schema.config.chunk_size,
                    schema.config.chunk_overlap)

ExpectedPointIds(rid) ==
  UNION { { PointId(rid, Field(j).name, idx) :
              idx \in 0..(Len(CurrentFragments(rid, Field(j))) - 1) }
          : j \in {k \in 1..NFields : Vectorised(Field(k))} }

\* C6: after any sequence of non-overlapping create and update calls on a
\* record that all completed successfully, the ids of the record's points
\* are exactly uuid5("{record_id}:{field}:{i}") for every vectorised field
\* with a current value and every chunk index i of its current text
C6_PointIdsMatchChunks ==
  call.op = "idle" =>
    \A r \in clean : rows[r] # NoRow => PointIdsOf(r) = ExpectedPointIds(r)

\* C6 witness: a successful update has replaced a two-chunk text by a
\* one-chunk text and uploaded a new file on a record all of whose calls
\* succeeded
C6_Witness ==
  /\ call.op = "idle"
  /\ last.op = "update" /\ last.outcome = "ok" /\ last.rid \in clean
  /\ last.current # NoRow
  /\ last.current["content"] = Some(TextLong)
  /\ "content" \in DOMAIN last.data /\ last.data["content"] = TextShort
  /\ "doc" \in DOMAIN last.files
  /\ PointIdsOf(last.rid) = ExpectedPointIds(last.rid)
  /\ Cardinality(PointIdsOf(last.rid)) >= 2

\* C7: update is idempotent: a successful update repeated with the same
\* payload leaves the same points (ids and payloads) and the same row as the
\* first application did
C7_UpdateIdempotent ==
  (last.op = "update" /\ last.outcome = "ok" /\ last.repeat)
  => /\ last.snap_points = last.prev_points
     /\ last.snap_row = last.prev_row

\* every removal of a blob in the write log comes after a relational write
RemovalsAfterRowWrite(w) ==
  \A i \in 1..Len(w) : w[i] = "rm" => \E j \in 1..(i - 1) : w[j] = "rel"

\* C8: update of a file field removes the old blob only after the new blob
\* was uploaded and the row updated to the new path, so that the committed
\* row never references a removed blob
C8_OldBlobRemovedAfterRowUpdate ==
  /\ call.op = "update" =>
       /\ RemovalsAfterRowWrite(call.writes)
       /\ \A n \in FileFieldNames \cap Columns :
            rows[call.rid] # NoRow /\ rows[call.rid][n] # None
              => rows[call.rid][n][1] \notin call.removed
  /\ last.op = "update" => RemovalsAfterRowWrite(last.writes)

\* the store a logged write goes to, in the order blobs, relational, vector
StoreRank(w) ==
  CASE w \in {"put", "rm"} -> 0
    [] w = "rel" -> 1
    [] w \in {"vdel", "vups", "vnew"} -> 2

\* the compensating removals of a failed create ("undo") are not ordered
WritesOrdered(w) ==
  \A i \in 1..Len(w) : \A j \in i..Len(w) :
    (w[i] # "undo" /\ w[j] # "undo") => StoreRank(w[i]) <= StoreRank(w[j])

\* C9: in every create and every update, all object-store writes precede the
\* relational write, which precedes every vector-store write
C9_WritesBlobsRelationalVector ==
  /\ call.op \in {"create", "update"} => WritesOrdered(call.writes)
  /\ last.op \in {"create", "update"} => WritesOrdered(last.writes)

\* C10: a create cancelled after a blob upload and before the relational
\* commit compensates like a failed create: every blob it uploaded is removed
\* and no row exists
C10_CancelledCreateUndoesBlobs ==
  (/\ last.op = "create" /\ last.outcome = "cancelled"
   /\ last.stage \in {"field", "extract", "embed", "insert"}
   /\ last.uploaded # {})
  => /\ rows[last.rid] = NoRow
     /\ last.uploaded \cap bucket = {}

\* ------------------------------ two concurrent updates of the same record
\* the request that created the record the updates work on
SeedData == MkData(Some(TextLong), None)

\* The state create_record(SeedData) leaves: the row, and the points of the
\* chunks of its text.  Two update calls follow; no store call fails.
InitUpdates ==
  /\ rows = [r \in RecIds |-> RowOf(SeedData)]
  /\ bucket = {}
  /\ points = UNION { BuildPoints(r, "content",
                                  chunk_text(TextLong, schema.config.chunk_size,
                                             schema.config.chunk_overlap),
                                  build_initial_payload_base(SeedData)) : r \in RecIds }
  /\ call = Idle
  /\ last = NoneYet
  /\ fileOf = [r \in RecIds |-> [n \in FileFieldNames |-> None]]
  /\ clean = RecIds
  /\ nextId = 2
  /\ ncalls = MaxCalls - 2
  /\ faults = MaxFaults
  /\ vcoll = TRUE
  /\ other = Idle
  /\ ExtInit

NextUpdates ==
  \/ \E r \in RecIds, d \in PairData : StartUpdate(r, d, EmptyDict)
  \/ FetchCurrent
  \/ UpdateScalar
  \/ \E ok \in BOOLEAN : UpdateDeleteField(ok)
  \/ \E ok \in BOOLEAN : UpdateEmbed(ok)
  \/ \E ok \in BOOLEAN : UpdateRow(ok)
  \/ \E ok \in BOOLEAN : UpdateUpsert(ok)
  \/ Switch

SpecUpdates == InitUpdates /\ [][NextUpdates]_vars

\* ------------------------------------------- embeddings module: handlers
\* embeddings.py 22-25: a new GeminiEmbeddingService, _dimension None; built
\* records the cache key each instance was constructed for
NewService(e, key) ==
  [e EXCEPT !.built = Append(e.built, key), !.dimension = Append(e.dimension, None)]

\* embeddings.py 61-72 up to the first await: a cached service is returned;
\* the default service is built and cached without an await (69, 71); for a
\* provider id the call suspends in _build_service_from_provider (67, 95)
GetEmbeddingService(q, provider_id) ==
  LET key == cache_key(provider_id) IN
  /\ emb.req[q].pc = "new"
  /\ emb' =
       IF emb.services[key] # None
       THEN [emb EXCEPT !.req[q] = [pc |-> "dim", key |-> key, service |-> emb.services[key][1]]]
       ELSE IF provider_id # None
       THEN [emb EXCEPT !.req[q] = [pc |-> "build", key |-> key, service |-> 0]]
       ELSE LET e == NewService(emb, key) IN
            [e EXCEPT !.services[key] = Some(Len(e.built)),
                      !.req[q] = [pc |-> "dim", key |-> key, service |-> Len(e.built)]]
  /\ UNCHANGED <<storeVars, authVars>>

\* embeddings.py 95-105, 71-72: the provider row has arrived; the service is
\* constructed and stored under the cache key, replacing what is there
BuildServiceFromProvider(q) ==
  LET key == emb.req[q].key
      e == NewService(emb, key)
  IN
  /\ emb.req[q].pc = "build"
  /\ emb' = [e EXCEPT !.services[key] = Some(Len(e.built)),
                      !.req[q].pc = "dim", !.req[q].service = Len(e.built)]
  /\ UNCHANGED <<storeVars, authVars>>

\* embeddings.py 50-52, 31: get_dimension sends the probe to the provider
\* when the instance has no dimension yet, and suspends
GetDimension(q) ==
  LET r == emb.req[q] IN
  /\ r.pc = "dim"
  /\ emb' =
       IF emb.dimension[r.service] = None
       THEN [emb EXCEPT !.probes[r.key] = @ + 1, !.req[q].pc = "probe"]
       ELSE [emb EXCEPT !.req[q].pc = "done"]
  /\ UNCHANGED <<storeVars, authVars>>

\* embeddings.py 36-39, 53-54: the probe's vector has arrived
EmbedTextReturn(q) ==
  LET r == emb.req[q] IN
  /\ r.pc = "probe"
  /\ emb' = [emb EXCEPT !.dimension[r.service] = IF @ = None THEN Some(Dim) ELSE @,
                        !.req[q].pc = "done"]
  /\ UNCHANGED <<storeVars, authVars>>

NextEmbed ==
  \/ \E q \in Requests, p \in ProviderIds : GetEmbeddingService(q, p)
  \/ \E q \in Requests : BuildServiceFromProvider(q)
  \/ \E q \in Requests : GetDimension(q)
  \/ \E q \in Requests : EmbedTextReturn(q)

SpecEmbed == Init /\ [][NextEmbed]_vars

\* ---------------------------------------------------- API keys: handlers
\* the initial values of the stores and the record handler calls
StoresEmpty ==
  /\ rows = [r \in RecIds |-> NoRow]
  /\ bucket = {}
  /\ points = {}
  /\ call = Idle
  /\ last = NoneYet
  /\ fileOf = [r \in RecIds |-> [n \in FileFieldNames |-> None]]
  /\ clean = {}
  /\ nextId = 1
  /\ ncalls = 0
  /\ faults = 0
  /\ vcoll = TRUE
  /\ other = Idle

\* auth_cache.py 74-88
maybe_cleanup(cache, t) ==
  IF t - cache.last_cleanup < cleanup_interval
  THEN cache
  ELSE [entries |-> {e \in cache.entries : ~(t - e.cached_at > e.ttl)},
        last_cleanup |-> t]

\* mutant of cache_get: a hit renews the entry
cache_get_renewing(cache, key_hash, t) ==
  LET cleaned == maybe_cleanup(cache, t)
      cached == {e \in cleaned.entries : e.key_hash = key_hash}
  IN IF cached = {}
     THEN [api_key |-> None, cache |-> cleaned]
     ELSE LET e == CHOOSE x \in cached : TRUE IN
          IF t - e.cached_at > e.ttl
          THEN [api_key |-> None, cache |-> [cleaned EXCEPT !.entries = @ \ {e}]]
          ELSE [api_key |-> Some(e.api_key),
                cache |-> [cleaned EXCEPT !.entries =
                             (@ \ {e}) \cup {[e EXCEPT !.cached_at = t]}]]

\* auth_cache.py 26-46: the cached key, if any, and the cache afterwards
cache_get(cache, key_hash, t) ==
  LET cleaned == maybe_cleanup(cache, t)
      cached == {e \in cleaned.entries : e.key_hash = key_hash}
  IN IF cached = {}
     THEN [api_key |-> None, cache |-> cleaned]
     ELSE LET e == CHOOSE x \in cached : TRUE IN
          IF t - e.cached_at > e.ttl
          THEN [api_key |-> None, cache |-> [cleaned EXCEPT !.entries = @ \ {e}]]
          ELSE [api_key |-> Some(e.api_key), cache |-> cleaned]

\* auth_cache.py 48-60
cache_set(cache, key_hash, api_key, t, seconds) ==
  [cache EXCEPT !.entries =
     {e \in @ : e.key_hash # key_hash}
       \cup {[key_hash |-> key_hash, api_key |-> api_key, cached_at |-> t,
              ttl |-> seconds]}]

\* auth.py 70-79: SELECT ... FROM api_keys WHERE key_hash = $1
RowsOfHash(key_hash) ==
  { i \in KeyIds : api_keys[i] # None /\ api_keys[i][1].key_hash = key_hash }

\* auth.py 33-128: the outcome for an Authorization header, the cache and
\* the table (last_used_at) afterwards
get_current_api_key(authorization) ==
  IF authorization = None
  THEN [status |-> "none", api_key |-> None, cache |-> key_cache, table |-> api_keys]
  ELSE
    LET key_hash == hash_api_key(authorization[1])
        cached == cache_get(key_cache, key_hash, now)
        found == RowsOfHash(key_hash)
    IN IF cached.api_key # None
       THEN [status |-> "ok", api_key |-> cached.api_key, cache |-> cached.cache,
             table |-> api_keys]
       ELSE IF found = {}
       THEN [status |-> "401", api_key |-> None, cache |-> cached.cache, table |-> api_keys]
       ELSE LET i == CHOOSE x \in found : TRUE
                api_key == api_keys[i][1]
            IN IF ~api_key.enabled
               THEN [status |-> "401", api_key |-> None, cache |-> cached.cache,
                     table |-> api_keys]
               ELSE IF api_key.expires_at # None /\ api_key.expires_at[1] < now
               THEN [status |-> "401", api_key |-> None, cache |-> cached.cache,
                     table |-> api_keys]
               ELSE [status |-> "ok", api_key |-> Some(api_key),
                     cache |-> cache_set(cached.cache, key_hash, api_key, now, ttl),
                     table |-> [api_keys EXCEPT ![i] =
                                  Some([api_key EXCEPT !.last_used_at = Some(now)])]]

\* whether the table holds, now, an enabled and unexpired row for the key
KeyValidNow(authorization) ==
  /\ authorization # None
  /\ \E i \in RowsOfHash(hash_api_key(authorization[1])) :
       /\ api_keys[i][1].enabled
       /\ api_keys[i][1].expires_at # None => ~(api_keys[i][1].expires_at[1] < now)

\* the response to a request, with what get_current_api_key made of its key
Answer(endpoint, authorization, auth, status, body) ==
  [endpoint |-> endpoint, status |-> status, authorization |-> authorization,
   current_key |-> auth.api_key, valid_at_request |-> KeyValidNow(authorization),
   body |-> body]

\* models/api_key.py 61-74
APIKeyResponse(row) ==
  [id |-> row.id, key_prefix |-> row.key_prefix, type |-> row.type,
   permissions |-> row.permissions, last_used_at |-> row.last_used_at,
   expires_at |-> row.expires_at, enabled |-> row.enabled]

\* models/api_key.py 77-87
APIKeyCreated(row, full_key) ==
  [id |-> row.id, key |-> full_key, key_prefix |-> row.key_prefix, type |-> row.type,
   permissions |-> row.permissions, expires_at |-> row.expires_at]

\* the rows of a table, newest first (ORDER BY created_at DESC)
RECURSIVE RowsDesc(_, _)
RowsDesc(table, n) ==
  IF n = 0 THEN <<>>
  ELSE (IF table[n] = None THEN <<>> ELSE <<APIKeyResponse(table[n][1])>>)
         \o RowsDesc(table, n - 1)

\* bootstrap.py 15-102: the admin key written at first startup
bootstrap_admin_key(env_key) ==
  LET full_key == IF env_key # None /\ env_key[1] # <<>> THEN env_key[1]
                  ELSE generate_api_key("admin", 1).full_key
  IN [full_key |-> full_key,
      row |-> [id |-> 1, key_hash |-> hash_api_key(full_key),
               key_prefix |-> key_prefix_of(full_key), type |-> "admin",
               permissions |-> build_permissions("admin", {}),
               last_used_at |-> None, expires_at |-> None, enabled |-> TRUE]]

\* main.py 25-28: the gateway serves requests after the bootstrap
InitKeys ==
  /\ StoresEmpty
  /\ emb = EmbInit
  /\ LibInit
  /\ \E env_key \in EnvKeys :
       LET b == bootstrap_admin_key(env_key) IN
       /\ api_keys = [i \in KeyIds |-> IF i = 1 THEN Some(b.row) ELSE None]
       /\ issued = [i \in KeyIds |-> IF i = 1 THEN Some(b.full_key) ELSE None]
  /\ key_cache = EmptyCache
  /\ now = 0
  /\ resp = NoResponse
  /\ header = None
  /\ notes = NotesInit(<<"t", "a", "g", "s">>)

\* the Authorization headers clients send: none, a key they were given, or
\* a key nobody was given
Presented == {None, Some(<<"x">>)} \cup { issued[i] : i \in KeyIds }

\* the part of every /api-keys handler before its body: 401 from
\* get_current_api_key, otherwise the admin check (auth.py 148-166,
\* api_keys.py 38-39)
Denied(auth) ==
  IF auth.status = "401" THEN 401
  ELSE IF auth.api_key = None \/ ~auth.api_key[1].permissions.admin THEN 403
  ELSE 0

\* api_keys.py 28-77
list_api_keys(authorization) ==
  LET auth == get_current_api_key(authorization) IN
  /\ key_cache' = auth.cache
  /\ api_keys' = auth.table
  /\ resp' = IF Denied(auth) # 0
             THEN Answer("list", authorization, auth, Denied(auth), <<>>)
             ELSE Answer("list", authorization, auth, 200, RowsDesc(auth.table, MaxKeys))
  /\ UNCHANGED <<storeVars, emb, now, issued, header>>

\* api_keys.py 80-146
create_api_key(authorization, key_type, databases, expires_at) ==
  LET auth == get_current_api_key(authorization)
      free == { i \in KeyIds : issued[i] = None /\ api_keys[i] = None }
  IN
  /\ free # {}
  /\ key_cache' = auth.cache
  /\ IF Denied(auth) # 0
     THEN /\ api_keys' = auth.table
          /\ resp' = Answer("create", authorization, auth, Denied(auth), <<>>)
          /\ UNCHANGED issued
     ELSE LET id == CHOOSE i \in free : \A j \in free : i <= j
              k == generate_api_key(key_type, id)
              row == [id |-> id, key_hash |-> k.key_hash, key_prefix |-> k.key_prefix,
                      type |-> key_type,
                      permissions |-> build_permissions(key_type, databases),
                      last_used_at |-> None, expires_at |-> expires_at,
                      enabled |-> TRUE]
          IN /\ api_keys' = [auth.table EXCEPT ![id] = Some(row)]
             /\ issued' = [issued EXCEPT ![id] = Some(k.full_key)]
             /\ resp' = Answer("create", authorization, auth, 201,
                               <<APIKeyCreated(row, k.full_key)>>)
  /\ UNCHANGED <<storeVars, emb, now, header>>

\* api_keys.py 149-196
get_api_key(authorization, key_id) ==
  LET auth == get_current_api_key(authorization) IN
  /\ key_cache' = auth.cache
  /\ api_keys' = auth.table
  /\ resp' = IF Denied(auth) # 0
             THEN Answer("get", authorization, auth, Denied(auth), <<>>)
             ELSE IF auth.table[key_id] = None
             THEN Answer("get", authorization, auth, 404, <<>>)
             ELSE Answer("get", authorization, auth, 200,
                         <<APIKeyResponse(auth.table[key_id][1])>>)
  /\ UNCHANGED <<storeVars, emb, now, issued, header>>

\* api_keys.py 199-288, for a request that sets enabled
update_api_key(authorization, key_id, enabled) ==
  LET auth == get_current_api_key(authorization) IN
  /\ key_cache' = auth.cache
  /\ IF Denied(auth) # 0
     THEN /\ api_keys' = auth.table
          /\ resp' = Answer("update", authorization, auth, Denied(auth), <<>>)
     ELSE IF auth.table[key_id] = None
     THEN /\ api_keys' = auth.table
          /\ resp' = Answer("update", authorization, auth, 404, <<>>)
     ELSE LET row == [auth.table[key_id][1] EXCEPT !.enabled = enabled] IN
          /\ api_keys' = [auth.table EXCEPT ![key_id] = Some(row)]
          /\ resp' = Answer("update", authorization, auth, 200, <<APIKeyResponse(row)>>)
  /\ UNCHANGED <<storeVars, emb, now, issued, header>>

\* api_keys.py 291-317
delete_api_key(authorization, key_id) ==
  LET auth == get_current_api_key(authorization) IN
  /\ key_cache' = auth.cache
  /\ IF Denied(auth) # 0
     THEN /\ api_keys' = auth.table
          /\ resp' = Answer("delete", authorization, auth, Denied(auth), <<>>)
     ELSE IF key_id = auth.api_key[1].id
     THEN /\ api_keys' = auth.table
          /\ resp' = Answer("delete", authorization, auth, 400, <<>>)
     ELSE IF auth.table[key_id] = None
     THEN /\ api_keys' = auth.table
          /\ resp' = Answer("delete", authorization, auth, 404, <<>>)
     ELSE /\ api_keys' = [auth.table EXCEPT ![key_id] = None]
          /\ resp' = Answer("delete", authorization, auth, 204, <<>>)
  /\ UNCHANGED <<storeVars, emb, now, issued, header>>

\* time passes
Tick(seconds) ==
  /\ now + seconds <= MaxTicks * ttl
  /\ now' = now + seconds
  /\ UNCHANGED <<storeVars, emb, api_keys, key_cache, issued, resp, header>>

NextKeys ==
  \/ \E a \in Presented : list_api_keys(a)
  \/ \E a \in Presented, t \in KeyTypes, x \in {None, Some(ttl)} :
       create_api_key(a, t, {"d2"}, x)
  \/ \E a \in Presented, i \in KeyIds : get_api_key(a, i)
  \/ \E a \in Presented, i \in KeyIds, e \in BOOLEAN : update_api_key(a, i, e)
  \/ \E a \in Presented, i \in KeyIds : delete_api_key(a, i)
  \/ Tick(ttl)

SpecKeys == InitKeys /\ [][NextKeys]_vars

\* ------------------------------------- record and collection endpoints
\* collections.py 152: the database that owns the collection
schema_database == Some("d1")

\* the key the client of the record endpoints holds: read-only, scoped to d2
ClientKey == generate_api_key("readonly", 2)

\* The gateway after the bootstrap and one POST /api-keys by the admin for a
\* read-only key scoped to database d2; no store call fails.
InitGuard ==
  /\ rows = [r \in RecIds |-> NoRow]
  /\ bucket = {}
  /\ points = {}
  /\ call = Idle
  /\ last = NoneYet
  /\ fileOf = [r \in RecIds |-> [n \in FileFieldNames |-> None]]
  /\ clean = {}
  /\ nextId = 1
  /\ ncalls = 0
  /\ faults = MaxFaults
  /\ vcoll = TRUE
  /\ other = Idle
  /\ emb = EmbInit
  /\ LibInit
  /\ api_keys = [i \in KeyIds |->
                   IF i = 1 THEN Some(bootstrap_admin_key(None).row)
                   ELSE IF i = 2
                   THEN Some([id |-> 2, key_hash |-> ClientKey.key_hash,
                              key_prefix |-> ClientKey.key_prefix, type |-> "readonly",
                              permissions |-> build_permissions("readonly", {"d2"}),
                              last_used_at |-> None, expires_at |-> None,
                              enabled |-> TRUE])
                   ELSE None]
  /\ issued = [i \in KeyIds |->
                 IF i = 1 THEN Some(bootstrap_admin_key(None).full_key)
                 ELSE IF i = 2 THEN Some(ClientKey.full_key) ELSE None]
  /\ key_cache = EmptyCache
  /\ now = 0
  /\ resp = NoResponse
  /\ header = None
  /\ notes = NotesInit(<<"t", "a", "g", "s">>)

\* between two requests the client changes the key it sends
SetHeader(a) ==
  /\ call.op = "idle" /\ other.op = "idle"
  /\ header # a
  /\ header' = a
  /\ UNCHANGED <<storeVars, emb, api_keys, key_cache, now, issued, resp>>

\* api/collections.py 135-154: GET /databases/{database}/collections/{name};
\* every database of Databases is registered
get_database_collection(database) ==
  /\ call.op = "idle" /\ other.op = "idle"
  /\ resp' = [endpoint |-> "collection", status |-> IF schema_database # Some(database)
                                                     THEN 404 ELSE 200,
              authorization |-> header, current_key |-> None,
              valid_at_request |-> KeyValidNow(header),
              body |-> IF schema_database # Some(database) THEN <<>>
                       ELSE <<[name |-> schema.name, database |-> schema_database,
                               fields |-> schema.fields]>>]
  /\ UNCHANGED <<storeVars, emb, api_keys, key_cache, now, issued, header>>

NextGuard ==
  \/ \E a \in Presented : SetHeader(a)
  \/ \E db \in Databases : get_database_collection(db)
  \/ \E d \in PairData : StartCreate(d, EmptyDict)
  \/ CreateScalar
  \/ \E ok \in BOOLEAN : CreateEmbed(ok)
  \/ \E ok \in BOOLEAN : CreateInsert(ok)
  \/ \E ok \in BOOLEAN : CreateUpsert(ok)
  \/ \E r \in RecIds, d \in PairData : StartUpdate(r, d, EmptyDict)
  \/ \E r \in RecIds : StartDelete(r)
  \/ FetchCurrent
  \/ UpdateScalar
  \/ \E ok \in BOOLEAN : UpdateDeleteField(ok)
  \/ \E ok \in BOOLEAN : UpdateEmbed(ok)
  \/ \E ok \in BOOLEAN : UpdateRow(ok)
  \/ \E ok \in BOOLEAN : UpdateUpsert(ok)
  \/ \E ok \in BOOLEAN : DeleteVectors(ok)
  \/ \E ok \in BOOLEAN : DeleteRow(ok)

SpecGuard == InitGuard /\ [][NextGuard]_vars

\* ----------------------------------------------- requests failing validation
\* a value for year that int() refuses
BadYear == <<"x">>

ValidateData ==
  { MkData(Some(t), y) : t \in Texts, y \in {None, Some(BadYear)} \cup {Some(n) : n \in Years} }

\* creates and updates whose year may be invalid; no store call fails
InitValidate ==
  /\ rows = [r \in RecIds |-> NoRow]
  /\ bucket = {}
  /\ points = {}
  /\ call = Idle
  /\ last = NoneYet
  /\ fileOf = [r \in RecIds |-> [n \in FileFieldNames |-> None]]
  /\ clean = {}
  /\ nextId = 1
  /\ ncalls = 0
  /\ faults = MaxFaults
  /\ vcoll = TRUE
  /\ other = Idle
  /\ ExtInit

NextValidate ==
  \/ \E d \in ValidateData : StartCreate(d, EmptyDict)
  \/ CreateScalar
  \/ \E ok \in BOOLEAN : CreateEmbed(ok)
  \/ \E ok \in BOOLEAN : CreateInsert(ok)
  \/ \E ok \in BOOLEAN : CreateUpsert(ok)
  \/ \E r \in RecIds, d \in ValidateData : StartUpdate(r, d, EmptyDict)
  \/ FetchCurrent
  \/ UpdateScalar
  \/ \E ok \in BOOLEAN : UpdateDeleteField(ok)
  \/ \E ok \in BOOLEAN : UpdateEmbed(ok)
  \/ \E ok \in BOOLEAN : UpdateRow(ok)
  \/ \E ok \in BOOLEAN : UpdateUpsert(ok)

SpecValidate == InitValidate /\ [][NextValidate]_vars

\* ------------------------------------------- creates with unique fields
\* a value for sku
Sku == <<"k">>

\* request bodies that give the content and may give the year and the sku
UniqueData ==
  { Merge(MkData(Some(TextShort), y), k) :
      y \in {None} \cup {Some(n) : n \in Years},
      k \in {EmptyDict, [n \in {"sku"} |-> Sku]} }

\* two creates, one after the other; no store call fails
InitUnique ==
  /\ rows = [r \in PairIds |-> NoRow]
  /\ bucket = {}
  /\ points = {}
  /\ call = Idle
  /\ last = NoneYet
  /\ fileOf = [r \in PairIds |-> [n \in FileFieldNames |-> None]]
  /\ clean = {}
  /\ nextId = 1
  /\ ncalls = 0
  /\ faults = MaxFaults
  /\ vcoll = TRUE
  /\ other = Idle
  /\ ExtInit

NextUnique ==
  \/ \E d \in UniqueData, f \in PairFiles : StartCreate(d, f)
  \/ \E ok \in BOOLEAN : CreateUpload(ok)
  \/ \E ok \in BOOLEAN : CreateExtract(ok)
  \/ CreateScalar
  \/ \E ok \in BOOLEAN : CreateEmbed(ok)
  \/ \E ok \in BOOLEAN : CreateInsert(ok)
  \/ \E ok \in BOOLEAN : CreateUpsert(ok)
  \/ \E ok \in BOOLEAN : CreateRollback(ok)

SpecUnique == InitUnique /\ [][NextUnique]_vars

\* ------------------------------------------------ create then get_record
\* the objects a request may put in the array: any subset of the nested
\* fields with a value
Labels == {<<"x">>, <<"y">>}
Objects == UNION { [S -> {<<"x">>}] : S \in SUBSET NestedNames }
ItemLists == {<<>>} \cup { <<a>> : a \in Objects } \cup { <<a, b>> : a \in Objects, b \in Objects }

\* records.py 554-572: the nested fields that have a value, converted
validate_array_field(value) ==
  [k \in 1..Len(value) |-> [n \in DOMAIN value[k] \cap NestedNames |-> value[k][n]]]

\* records.py 43-64, postgres.py 320-362: the row and the child rows of the
\* array field are inserted in one transaction
insert_record(title, value) ==
  LET free == { i \in NoteIds : notes.main[i] = None } IN
  /\ free # {}
  /\ LET id == CHOOSE i \in free : \A j \in free : i <= j
         items == validate_array_field(value)
         child_table == sanitize_identifier(NotesName) \o <<"_">> \o lower(notes.field)
     IN notes' = [notes EXCEPT
                    !.main[id] = Some([title |-> title]),
                    !.child = @ \cup { [table |-> child_table, parent_id |-> id,
                                        item_index |-> k - 1,
                                        columns |-> [n \in NestedNames |->
                                                       IF n \in DOMAIN items[k]
                                                       THEN Some(items[k][n]) ELSE None]]
                                       : k \in 1..Len(items) },
                    !.submitted[id] = Some([title |-> title, items |-> items])]
  /\ UNCHANGED <<rows, bucket, points, call, last, fileOf, clean, nextId, ncalls, faults,
                 vcoll, other>>
  /\ UNCHANGED <<emb, authVars, libVars>>

\* postgres.py 373-381: SELECT * FROM "{table}_{field}" ... ORDER BY
\* item_index; the quoted name is looked up as written
fetch_child_items(collection, field_name, record_id) ==
  LET child_table == sanitize_identifier(collection) \o <<"_">> \o field_name
      found == { c \in notes.child : c.table = child_table /\ c.parent_id = record_id }
  IN IF child_table \notin notes.tables
     THEN [raised |-> TRUE, items |-> <<>>]
     ELSE [raised |-> FALSE,
           items |-> [k \in 1..Cardinality(found) |->
                        (CHOOSE c \in found : c.item_index = k - 1).columns]]

\* api/records.py 55-63, records.py 217-247: the row with the array field's
\* items; an exception that is no ValueError is answered 500
get_record(record_id) ==
  LET fetched == fetch_child_items(NotesName, notes.field, record_id) IN
  /\ resp' = [endpoint |-> "get_record", status |-> IF notes.main[record_id] = None THEN 404
                                                    ELSE IF fetched.raised THEN 500 ELSE 200,
              authorization |-> header, current_key |-> None,
              valid_at_request |-> FALSE, record_id |-> record_id,
              body |-> IF notes.main[record_id] = None \/ fetched.raised THEN <<>>
                       ELSE <<[title |-> notes.main[record_id][1].title,
                               items |-> fetched.items]>>]
  /\ UNCHANGED <<storeVars, emb, api_keys, key_cache, now, issued, header>>

InitGet ==
  /\ StoresEmpty
  /\ emb = EmbInit
  /\ LibInit
  /\ AuthInit
  /\ \E field_name \in ArrayFieldNames : notes = NotesInit(field_name)

NextGet ==
  \/ \E t \in Labels, v \in ItemLists : insert_record(t, v)
  \/ \E i \in NoteIds : get_record(i)

SpecGet == InitGet /\ [][NextGet]_vars

\* ================================================= claims on concurrency
\* both concurrent creates have returned
BothCreatesDone == call.op = "idle" /\ other.op = "idle" /\ nextId \notin DOMAIN rows

\* C11: two concurrent creates commute: whatever the interleaving of their
\* store operations, the stores end as after running the two calls one after
\* the other: both calls succeeded, both rows exist with their blobs, and each
\* record has exactly the points of its own chunks
C11_ConcurrentCreatesCommute ==
  BothCreatesDone =>
    \A r \in DOMAIN rows :
      /\ r \in clean
      /\ rows[r] # NoRow
      /\ RowBlobsExist(rows[r])
      /\ PointIdsOf(r) = ExpectedPointIds(r)

\* the points of one field of a record, as (id, chunk text) pairs
FieldChunks(rid, fname) ==
  { <<p.id, p.payload["text"]>> :
      p \in {q \in PointsOf(points, rid) : q.payload["field"] = Some(fname)} }

\* the (id, chunk text) pairs one update to text t alone leaves for a field
ChunksOfText(rid, fname, t) ==
  LET fragments == chunk_text(t, schema.config.chunk_size, schema.config.chunk_overlap)
  IN { <<PointId(rid, fname, i - 1), Some(fragments[i])>> : i \in 1..Len(fragments) }

\* both concurrent updates have returned
BothUpdatesDone == call.op = "idle" /\ other.op = "idle" /\ ncalls = MaxCalls

\* C12: two concurrent updates of the same vectorised field of one record:
\* once both have finished, the field's points are exactly those of one of
\* the two values (never a mix of chunks of both) and the row holds one of
\* the two values
C12_FieldLastWriterWins ==
  BothUpdatesDone =>
    \A r \in RecIds :
      /\ \E t \in Texts : FieldChunks(r, "content") = ChunksOfText(r, "content", t)
      /\ \E t \in Texts : rows[r]["content"] = Some(t)

\* the instances constructed for a cache key
BuiltFor(key) == { i \in 1..Len(emb.built) : emb.built[i] = key }

\* every request has its service and its dimension
AllRequestsDone == \A q \in Requests : emb.req[q].pc = "done"

\* C13: when concurrent requests make the first use of the same embedding
\* provider, exactly one service instance is created for it and exactly one
\* dimension probe is sent to it
C13_SingleFlightFirstUse ==
  AllRequestsDone =>
    \A key \in { emb.req[q].key : q \in Requests } :
      /\ Cardinality(BuiltFor(key)) = 1
      /\ emb.probes[key] = 1

\* ========================================================= claims on keys
\* C16: get_current_api_key lets a request through with a key only if, at
\* the time of that request, the key's row exists, is enabled and has not
\* expired; a key disabled, deleted or expired since an earlier request is
\* turned down
C16_AuthenticatesOnlyValidKeys ==
  resp.current_key # None => resp.valid_at_request

\* whether the characters of key occur, in order and adjacent, in str
Leaks(str, key) ==
  \E i \in 0..(Len(str) - Len(key)) : SubSeq(str, i + 1, i + Len(key)) = key

\* C17: for every API key the persisted key_hash is the SHA-256 of the
\* plaintext, no persisted column holds the plaintext, and no list, get or
\* update response of /api-keys holds the plaintext or the hash
C17_PlaintextOnlyAtCreation ==
  \A i \in KeyIds :
    issued[i] # None =>
      /\ api_keys[i] # None =>
           /\ api_keys[i][1].key_hash = hash_api_key(issued[i][1])
           /\ ~Leaks(api_keys[i][1].key_prefix, issued[i][1])
      /\ resp.endpoint \in {"list", "get", "update"} =>
           \A j \in 1..Len(resp.body) :
             /\ "key" \notin DOMAIN resp.body[j]
             /\ "key_hash" \notin DOMAIN resp.body[j]
             /\ ~Leaks(resp.body[j].key_prefix, issued[i][1])

\* the permissions of the enabled row the table holds for a header's key
PermissionsOf(authorization) ==
  { api_keys[i][1].permissions :
      i \in {j \in KeyIds : /\ authorization # None
                            /\ api_keys[j] # None
                            /\ api_keys[j][1].key_hash = hash_api_key(authorization[1])} }

\* the client sends a key whose permissions.readonly is true
ReadonlyClient == \E perm \in PermissionsOf(header) : perm.readonly

\* C14: while the client authenticates with a read-only key, no POST, PATCH
\* or DELETE on /collections/{c}/records succeeds (each is answered 403) and
\* no step changes the table, the bucket or the points
C14_ReadonlyKeyCannotWrite ==
  [][ReadonlyClient =>
       /\ UNCHANGED <<rows, bucket, points>>
       /\ (call.op # "idle" /\ call'.op = "idle") => last'.outcome # "ok"]_vars

\* C15: a request with a non-admin key whose permissions.databases lacks the
\* database that owns the collection is answered 403 and is given nothing of
\* the collection
C15_ScopedKeyCannotReadOtherDatabase ==
  (/\ resp.endpoint = "collection"
   /\ \E perm \in PermissionsOf(resp.authorization) :
        ~perm.admin /\ schema_database # None /\ schema_database[1] \notin perm.databases)
    => resp.status = 403 /\ resp.body = <<>>

\* ================================================== claims on validation
\* C18: a create or update that fails the validation of a field has written
\* to no store: no blob uploaded or removed, no row written, no point written
\* or deleted
C18_ValidationFailureWritesNothing ==
  (last.outcome = "error" /\ last.stage = "validate") =>
     /\ last.writes = <<>>
     /\ last.uploaded = {}

\* ================================================= claims on constraints
\* the values a stored record has for a field: its column, or the payload
\* of its points
StoredValues(rid, fname) ==
  (IF fname \in Columns /\ rows[rid] # NoRow THEN {rows[rid][fname]} ELSE {})
    \cup (IF fname \in Columns THEN {}
          ELSE { p.payload[fname] :
                   p \in {q \in PointsOf(points, rid) : fname \in DOMAIN q.payload} })

UniqueFieldNames == { n \in ScalarFieldNames : FieldByName(n).unique }

\* C19: a second create whose value for a unique field equals that of an
\* existing record is rejected and leaves nothing: no two stored records
\* share a value of a unique field, and a create rejected by the insert
\* leaves no row, no point and no blob of its record
C19_UniqueRejectsSecondCreate ==
  /\ \A r1 \in DOMAIN rows, r2 \in DOMAIN rows, n \in UniqueFieldNames :
       (r1 # r2 /\ rows[r1] # NoRow /\ rows[r2] # NoRow) =>
          StoredValues(r1, n) \cap StoredValues(r2, n) \subseteq {None}
  /\ (last.op = "create" /\ last.outcome = "error" /\ last.stage = "insert") =>
       /\ rows[last.rid] = NoRow
       /\ PointsOf(points, last.rid) = {}
       /\ BlobsUnder(last.rid) = {}

\* ==================================================== claims on reading
\* an object as get returns it, without the nested fields that are null
NonNull(columns) ==
  [n \in {m \in DOMAIN columns : columns[m] # None} |-> columns[n][1]]

\* C20: get of a created record (one the request found) returns every
\* stored value: the scalar as submitted and the array field as the
\* submitted list of objects, in the submitted order
C20_CreateThenGetRoundTrip ==
  (resp.endpoint = "get_record" /\ resp.status # 404) =>
     LET sent == notes.submitted[resp.record_id][1] IN
     /\ resp.status = 200
     /\ Len(resp.body) = 1
     /\ resp.body[1].title = sent.title
     /\ Len(resp.body[1].items) = Len(sent.items)
     /\ \A k \in 1..Len(sent.items) : NonNull(resp.body[1].items[k]) = sent.items[k]

\* ================================================== chunk_text on its own
\* the state outside the library calls
coreVars == <<rows, bucket, points, call, last, fileOf, clean, nextId, ncalls, faults,
              vcoll, other, emb, authVars, notes, unitVars>>

\* the texts chunked: empty, blank, one token, padded with runs of blanks,
\* and long enough for three windows
ChunkTexts ==
  { <<>>, <<" ">>, <<"a">>, <<"a", " ", "b">>,
    <<" ", "a", " ", " ", "b", " ", "c", " ">>,
    <<"a", " ", "b", " ", "c", " ", "d", " ", "e">>,
    <<"a", " ", "b", " ", "c", " ", "d", " ", "e", " ", "f", " ", "g", " ", "h">> }

\* records.py 109-110, 185: chunk_size and chunk_overlap are the integers of
\* the collection's config, which models/schema.py 112-113 does not constrain
ChunkTextCall(text, chunk_size, chunk_overlap) ==
  /\ chunked = NoChunking \/ chunked.returned
  /\ chunked' = [text |-> text, chunk_size |-> chunk_size,
                 chunk_overlap |-> chunk_overlap, returned |-> FALSE, chunks |-> <<>>]
  /\ UNCHANGED <<coreVars, parsed, migr, boot, named>>

\* chunking.py 6-25
ChunkTextReturn ==
  /\ ~chunked.returned
  /\ chunked' = [chunked EXCEPT
                   !.returned = TRUE,
                   !.chunks = chunk_text(chunked.text, chunked.chunk_size,
                                         chunked.chunk_overlap)]
  /\ UNCHANGED <<coreVars, parsed, migr, boot, named>>

NextChunk ==
  \/ \E text \in ChunkTexts, chunk_size \in 1..MaxSize,
        chunk_overlap \in (0 - 1)..MaxOverlap :
       ChunkTextCall(text, chunk_size, chunk_overlap)
  \/ ChunkTextReturn

SpecChunk == Init /\ [][NextChunk]_vars

\* ==================================================== claims on chunking
\* the overlap in effect: an overlap >= size counts as size/4
EffectiveOverlap(chunk_size, chunk_overlap) ==
  IF chunk_overlap >= chunk_size THEN chunk_size \div 4 ELSE chunk_overlap

\* a token sequence without its first k tokens
DropTokens(tokens, k) == SubSeq(tokens, Max(k, 0) + 1, Len(tokens))

RECURSIVE Reassemble(_, _, _)
\* chunk i whole when i = 1 and without its first k tokens otherwise,
\* followed by the same for the chunks after it
Reassemble(chunks, i, k) ==
  IF i > Len(chunks) THEN <<>>
  ELSE (IF i = 1 THEN Split(chunks[i]) ELSE DropTokens(Split(chunks[i]), k))
         \o Reassemble(chunks, i + 1, k)

\* C25: the first chunk followed by every later chunk without its first k
\* tokens (k the overlap in effect) is the token sequence of the text, and
\* the empty text has no chunk
C25_ChunksReassembleToText ==
  (chunked # NoChunking /\ chunked.returned) =>
     /\ Reassemble(chunked.chunks, 1,
                   EffectiveOverlap(chunked.chunk_size, chunked.chunk_overlap))
          = Split(chunked.text)
     /\ (chunked.text = <<>> => chunked.chunks = <<>>)

\* C26: window i starts (i - 1) * (size - overlap) tokens into the text and
\* holds the size tokens from there, the last window holding what is left,
\* where an overlap >= size counts as size/4
C26_WindowsSlideBySizeMinusOverlap ==
  (chunked # NoChunking /\ chunked.returned) =>
     LET tokens == Split(chunked.text)
         step == chunked.chunk_size
                   - EffectiveOverlap(chunked.chunk_size, chunked.chunk_overlap)
     IN \A i \in 1..Len(chunked.chunks) :
          LET start == (i - 1) * step
              window == Split(chunked.chunks[i])
          IN /\ window = SubSeq(tokens, start + 1,
                                Min(Len(tokens), start + chunked.chunk_size))
             /\ (i < Len(chunked.chunks) => Len(window) = chunked.chunk_size)

\* three windows cut with an overlap that was replaced by a quarter of the size
C26_Witness ==
  /\ chunked.returned
  /\ chunked.chunk_overlap >= chunked.chunk_size
  /\ EffectiveOverlap(chunked.chunk_size, chunked.chunk_overlap) >= 1
  /\ Len(chunked.chunks) >= 3

\* ============================================== schema documents: parsing
\* models/schema.py 10-21: the field types posted (date, datetime, float and
\* json are validated like boolean, int and string)
FieldTypes == {"string", "text", "int", "boolean", "enum", "array", "file"}

\* a truthy Optional[List]: neither None nor empty
Truthy(value) == value # None /\ value[1] # <<>>

\* schema.py 65-70
ensure_store_non_empty(value) == value # {}

\* schema.py 72-79
validate_enum_values(type, value) == ~(type = "enum" /\ ~Truthy(value))

\* schema.py 81-102
validate_field(self) ==
  /\ ~(self.type # "enum" /\ Truthy(self.values))
  /\ ~(self.vectorize /\ self.type \notin {"text", "string", "file"})
  /\ IF self.type = "array" THEN Truthy(self.schema) ELSE ~Truthy(self.schema)
  /\ ~(self.type # "file" /\ self.extract_config # None)
  /\ ~(self.unique /\ self.type \notin {"string", "int", "float"})

RECURSIVE FieldDefinition(_)
\* schema.py 40-102: validation of one field mapping.  A field validator
\* runs on a key the mapping gives and is skipped when the default is used;
\* the fields of a nested schema are validated as FieldDefinition themselves;
\* the model validator runs last
FieldDefinition(raw) ==
  /\ ("values" \in raw.given => validate_enum_values(raw.type, raw.values))
  /\ ("store_in" \in raw.given => ensure_store_non_empty(raw.store_in))
  /\ (raw.schema # None =>
        \A i \in DOMAIN raw.schema[1] : FieldDefinition(raw.schema[1][i]))
  /\ validate_field(raw)

\* schema.py 126-133
ensure_unique_field_names(fields) ==
  \A i \in DOMAIN fields, j \in DOMAIN fields : i # j => fields[i].name # fields[j].name

\* schema.py 117-140 (the names posted are identifiers)
CollectionSchema(data) ==
  /\ \A i \in DOMAIN data.fields : FieldDefinition(data.fields[i])
  /\ ensure_unique_field_names(data.fields)

\* core/schema.py 18-48: SchemaParseError on a validation error
parse_schema(data) == IF CollectionSchema(data) THEN "parsed" ELSE "SchemaParseError"

\* a field mapping: the keys values and store_in are given or left out, and
\* a key left out holds its default (schema.py 52-53)
RawField(name, type, given, values, store_in, vectorize, unique, nested, extract_config) ==
  [name |-> name, type |-> type, given |-> given,
   values |-> IF "values" \in given THEN values ELSE None,
   store_in |-> IF "store_in" \in given THEN store_in ELSE {"postgres"},
   vectorize |-> vectorize, unique |-> unique, schema |-> nested,
   extract_config |-> extract_config]

\* the field mappings of a nested schema
NestedFields ==
  { RawField(name, type, given, Some(<<"v">>), {"postgres"}, FALSE, FALSE, nested, None) :
      name \in {"a", "b"}, type \in {"string", "enum", "array"},
      given \in {{}, {"values"}},
      nested \in {None, Some(<<RawField("a", "string", {}, None, {}, FALSE, FALSE, None, None)>>)} }

\* the values of the key schema
NestedSchemas ==
  {None, Some(<<>>)}
    \cup { Some(<<f>>) : f \in NestedFields }
    \cup { Some(<<f, g>>) : f \in NestedFields, g \in NestedFields }

\* the top-level field mappings
TopFields ==
  { RawField(name, type, given, values, store_in, vectorize, unique, None, extract_config) :
      name \in {"a", "b"}, type \in FieldTypes, given \in SUBSET {"values", "store_in"},
      values \in {None, Some(<<>>), Some(<<"v">>)}, store_in \in {{}, {"qdrant_payload"}},
      vectorize \in BOOLEAN, unique \in BOOLEAN,
      extract_config \in {None, Some("extract_text")} }
    \cup
  { RawField("a", type, {}, None, {}, FALSE, FALSE, nested, None) :
      type \in {"array", "string"}, nested \in NestedSchemas }

\* two top-level fields
FieldPairs ==
  { <<f, RawField(name, "string", {}, None, {}, FALSE, FALSE, None, None)>> :
      f \in { g \in TopFields : g.schema = None /\ g.extract_config = None /\ ~g.unique },
      name \in {"a", "b"} }

\* the schema documents posted
SchemaDocuments ==
  { [name |-> "docs", fields |-> fields] :
      fields \in { <<f>> : f \in TopFields } \cup FieldPairs }

\* api/collections.py 19-21: POST /collections reads the body
PostSchema(data) ==
  /\ parsed = NoParse
  /\ parsed' = [data |-> data, outcome |-> "pending"]
  /\ UNCHANGED <<coreVars, chunked, migr, boot, named>>

\* api/collections.py 22-24: the body is parsed, and SchemaParseError is
\* answered 400 before the collection service is called
ParseSchema ==
  /\ parsed.outcome = "pending"
  /\ parsed' = [parsed EXCEPT !.outcome = parse_schema(parsed.data)]
  /\ UNCHANGED <<coreVars, chunked, migr, boot, named>>

NextParse ==
  \/ \E data \in SchemaDocuments : PostSchema(data)
  \/ ParseSchema

SpecParse == Init /\ [][NextParse]_vars

\* ============================================= claims on schema documents
\* what is declared of one field
FieldInvariants(f) ==
  /\ Truthy(f.values) <=> f.type = "enum"
  /\ f.vectorize => f.type \in {"text", "string", "file"}
  /\ Truthy(f.schema) <=> f.type = "array"
  /\ f.extract_config # None => f.type = "file"
  /\ f.unique => f.type \in {"string", "int", "float"}
  /\ f.store_in # {}

NamesDistinct(fields) ==
  \A i \in DOMAIN fields, j \in DOMAIN fields : i # j => fields[i].name # fields[j].name

\* C27: in a schema that parse_schema accepted, every top-level field and
\* every field nested in an array field satisfies the declared invariants,
\* no nested field is an array, and the names in each list are distinct
C27_AcceptedSchemaIsWellFormed ==
  parsed.outcome = "parsed" =>
     /\ NamesDistinct(parsed.data.fields)
     /\ \A i \in DOMAIN parsed.data.fields :
          LET f == parsed.data.fields[i] IN
          /\ FieldInvariants(f)
          /\ f.schema # None =>
               /\ NamesDistinct(f.schema[1])
               /\ \A k \in DOMAIN f.schema[1] :
                    /\ FieldInvariants(f.schema[1][k])
                    /\ f.schema[1][k].type # "array"

\* ===================================================== migration runner
RECURSIVE sorted_desc(_)
\* mutant of sorted: descending order
sorted_desc(files) ==
  IF files = {} THEN <<>>
  ELSE LET first == CHOOSE f \in files : \A g \in files : f >= g
       IN <<first>> \o sorted_desc(files \ {first})

RECURSIVE sorted(_)
\* migrations.py 49: sorted(self.migrations_dir.glob("*.sql"))
sorted(files) ==
  IF files = {} THEN <<>>
  ELSE LET first == CHOOSE f \in files : \A g \in files : f <= g
       IN <<first>> \o sorted(files \ {first})

\* the elements of a sequence that satisfy a membership test, in order
RECURSIVE NotIn(_, _)
NotIn(seq, applied) ==
  IF seq = <<>> THEN <<>>
  ELSE (IF Head(seq) \in applied THEN <<>> ELSE <<Head(seq)>>) \o NotIn(Tail(seq), applied)

\* a release ships a further SQL file; no gateway process is starting
ShipFile(f) ==
  /\ \A w \in Runners : migr.runner[w].pc = "idle"
  /\ f \notin migr.files
  /\ migr' = [migr EXCEPT !.files = @ \cup {f}]
  /\ UNCHANGED <<coreVars, chunked, parsed, boot, named>>

\* migrations.py 42-60 (main.py 22): the runner reads the applied filenames
\* and lists the pending files; with none pending it returns
run_migrations(w) ==
  /\ migr.runner[w].pc = "idle"
  /\ migr.runs < MaxRuns
  /\ LET applied == migr.schema_migrations
         migration_files == sorted(migr.files)
         pending == NotIn(migration_files, applied)
     IN migr' = [migr EXCEPT
                   !.runs = @ + 1,
                   !.runner[w] = [pc |-> IF pending = <<>> THEN "idle" ELSE "running",
                                  pending |-> pending, this_run |-> <<>>,
                                  raised |-> None]]
  /\ UNCHANGED <<coreVars, chunked, parsed, boot, named>>

\* migrations.py 62-90: _run_migration of the next pending file.  The SQL
\* and the INSERT into schema_migrations run in one transaction: both commit,
\* or the SQL raises, or the INSERT violates UNIQUE(filename) (line 30)
\* because another process recorded the file, and then neither takes effect
\* and the exception ends the run
RunMigration(w, ok) ==
  /\ migr.runner[w].pc = "running"
  /\ ok \/ migr.failures < MaxFaults
  /\ LET migration_file == Head(migr.runner[w].pending)
         rest == Tail(migr.runner[w].pending)
     IN IF ok /\ migration_file \notin migr.schema_migrations
          THEN migr' = [migr EXCEPT
                          !.committed[migration_file] = @ + 1,
                          !.schema_migrations = @ \cup {migration_file},
                          !.runner[w].this_run = Append(@, migration_file),
                          !.runner[w].pending = rest,
                          !.runner[w].pc = IF rest = <<>> THEN "idle" ELSE "running"]
          ELSE migr' = [migr EXCEPT
                          !.failures = IF ok THEN @ ELSE @ + 1,
                          !.runner[w].raised = Some(migration_file),
                          !.runner[w].pending = <<>>,
                          !.runner[w].pc = "idle"]
  /\ UNCHANGED <<coreVars, chunked, parsed, boot, named>>

NextMigrate ==
  \/ \E f \in MigrationFiles : ShipFile(f)
  \/ \E w \in Runners : run_migrations(w)
  \/ \E w \in Runners, ok \in BOOLEAN : RunMigration(w, ok)

SpecMigrate == Init /\ [][NextMigrate]_vars

\* ================================================== claims on migrations
\* C28: over the runs of the migration runner the SQL of a file is
\* committed at most once, a filename is in schema_migrations exactly when
\* its SQL is committed, a run applies files in ascending filename order,
\* and a run in which a file failed applied no file after it
C28_MigrationsApplyOnceInOrder ==
  /\ \A f \in MigrationFiles :
       /\ migr.committed[f] <= 1
       /\ f \in migr.schema_migrations <=> migr.committed[f] = 1
  /\ \A w \in Runners :
       LET run == migr.runner[w] IN
       /\ \A i \in DOMAIN run.this_run, j \in DOMAIN run.this_run :
            i < j => run.this_run[i] < run.this_run[j]
       /\ run.raised # None =>
            /\ run.pc = "idle"
            /\ \A i \in DOMAIN run.this_run : run.this_run[i] < run.raised[1]

\* a run failed at one file, and a later run applied two files, after which
\* every file is recorded
C28_Witness ==
  /\ migr.failures >= 1
  /\ migr.runs >= 2
  /\ \E w \in Runners : Len(migr.runner[w].this_run) >= 2
  /\ migr.schema_migrations = MigrationFiles

\* ============================================ startups and the admin key
\* mutant of admin_count: the rows of enabled admin keys
admin_count_enabled(table) ==
  Cardinality({ i \in DOMAIN table :
                  table[i] # None /\ table[i][1].type = "admin" /\ table[i][1].enabled })

\* bootstrap.py 28-30: SELECT COUNT(*) FROM api_keys WHERE type = 'admin'
admin_count(table) ==
  Cardinality({ i \in DOMAIN table : table[i] # None /\ table[i][1].type = "admin" })

\* main.py 24-27, bootstrap.py 15-102: a gateway process starts, with an
\* empty key cache, and bootstraps the admin key: with an admin row present
\* it returns, otherwise it inserts the row of the environment's key or of a
\* generated one under the next id
Startup(env_key) ==
  LET free == { i \in KeyIds : issued[i] = None /\ api_keys[i] = None }
      id == CHOOSE i \in free : \A j \in free : i <= j
      b == bootstrap_admin_key(env_key)
      row == [b.row EXCEPT !.id = id]
  IN
  /\ boot.startups < MaxStartups
  /\ key_cache' = EmptyCache
  /\ IF admin_count(api_keys) > 0
       THEN /\ boot' = [boot EXCEPT !.startups = @ + 1,
                                    !.admin_count = admin_count(api_keys),
                                    !.inserted = FALSE]
            /\ UNCHANGED <<api_keys, issued>>
       ELSE /\ free # {}
            /\ api_keys' = [api_keys EXCEPT ![id] = Some(row)]
            /\ issued' = [issued EXCEPT ![id] = Some(b.full_key)]
            /\ boot' = [boot EXCEPT !.startups = @ + 1,
                                    !.admin_count = 0,
                                    !.inserted = TRUE,
                                    !.created = Append(@, [env_key |-> env_key, row |-> row])]
  /\ UNCHANGED <<rows, bucket, points, call, last, fileOf, clean, nextId, ncalls,
                 faults, vcoll, other, notes, emb, now, resp, header,
                 chunked, parsed, migr, named, unitVars>>

\* the keys handed out so far
IssuedKeys == { issued[i] : i \in KeyIds } \ {None}

\* the gateway serves /api-keys requests once it has started; the holders
\* of keys create further admin keys, disable keys and delete keys
NextBoot ==
  \/ \E env_key \in EnvKeys : Startup(env_key)
  \/ /\ boot.startups >= 1
     /\ \/ \E a \in IssuedKeys : create_api_key(a, "admin", {}, None)
        \/ \E a \in IssuedKeys, i \in KeyIds : update_api_key(a, i, FALSE)
        \/ \E a \in IssuedKeys, i \in KeyIds : delete_api_key(a, i)

SpecBoot == Init /\ [][NextBoot]_vars

\* ================================================ claims on the bootstrap
\* the bootstrap keys created whose row the table still holds
StoredBootstrapKeys ==
  { k \in DOMAIN boot.created : api_keys[boot.created[k].row.id] # None }

\* C29: a startup inserts an admin row exactly when it found none; over
\* startups that find the rows earlier startups wrote, exactly one bootstrap
\* key is created, no two bootstrap rows ever exist together, and the hash
\* stored for a bootstrap key is the SHA-256 of the environment's key when
\* one is set and of a generated admin key otherwise
C29_BootstrapCreatesOneAdminKey ==
  /\ boot.inserted <=> (boot.startups >= 1 /\ boot.admin_count = 0)
  /\ Cardinality(StoredBootstrapKeys) <= 1
  /\ StoredBootstrapKeys = DOMAIN boot.created =>
       Len(boot.created) = IF boot.startups >= 1 THEN 1 ELSE 0
  /\ \A k \in DOMAIN boot.created :
       LET c == boot.created[k] IN
       /\ c.row.type = "admin"
       /\ IF c.env_key # None
            THEN c.row.key_hash = hash_api_key(c.env_key[1])
            ELSE \E i \in KeyIds :
                   c.row.key_hash = hash_api_key(generate_api_key("admin", i).full_key)

\* a second startup found the admin rows of earlier keys and inserted nothing
C29_Witness ==
  /\ boot.startups >= 2
  /\ ~boot.inserted
  /\ boot.admin_count >= 1
  /\ Len(boot.created) = 1

\* ======================================== names of collections and buckets
\* collections.py 27-30
default_bucket_name(collection, database) ==
  IF database # None /\ database[1] # <<>>
    THEN lower(database[1] \o <<"-">> \o collection)
    ELSE lower(<<"c", "o", "r", "t", "e", "x", "-">> \o collection)

\* collections.py 33-36
get_qdrant_collection_name(collection, database) ==
  IF database # None /\ database[1] # <<>>
    THEN database[1] \o <<"_", "_">> \o collection
    ELSE collection

\* the collection names and the owning databases posted
CollectionNames == {<<"d", "o", "c", "s">>, <<"l", "o", "g", "s">>}
OwnerDatabases == {None, Some(<<"d", "1">>)}

\* collections.py 57-78: create_collection of a schema with vectorised and
\* file fields creates the vector collection and the bucket it derives from
\* the schema's name and database
create_collection(name, database) ==
  /\ named.schema = None
  /\ LET qdrant_name == get_qdrant_collection_name(name, database)
         bucket_name == default_bucket_name(name, database)
     IN named' = [named EXCEPT
                    !.schema = Some([name |-> name, database |-> database]),
                    !.qdrant = @ \cup {qdrant_name},
                    !.minio = @ \cup {bucket_name},
                    !.created = Some([qdrant_collection |-> qdrant_name,
                                      minio_bucket |-> bucket_name]),
                    !.dropped = None,
                    !.addressed = [op \in RecordOps |-> None]]
  /\ UNCHANGED <<coreVars, chunked, parsed, migr, boot>>

\* collections.py 80-94: delete_collection drops the vector collection of
\* the derived name; the bucket is left in place
delete_collection ==
  /\ named.schema # None
  /\ LET schema_ == named.schema[1]
         qdrant_name == get_qdrant_collection_name(schema_.name, schema_.database)
     IN named' = [named EXCEPT
                    !.schema = None,
                    !.qdrant = @ \ {qdrant_name},
                    !.dropped = Some(qdrant_name)]
  /\ UNCHANGED <<coreVars, chunked, parsed, migr, boot>>

\* records.py 49-51, 68-69, 80, 510-513: create_record of the collection
\* named in the path ensures and writes the vector collection of that name
\* and the bucket default_bucket_name(schema.name)
\* records.py 304, 310 (delete_record), 371, 375, 413, 445 (update_record),
\* 259-260 (get_record_vectors), search.py 45, 101 (hybrid_search): the
\* vector collection named in the path and default_bucket_name(collection)
RecordOperation(op) ==
  /\ named.schema # None
  /\ LET collection == named.schema[1].name
         bucket_name == default_bucket_name(collection, None)
     IN named' = [named EXCEPT
                    !.qdrant = IF op = "create" THEN @ \cup {collection} ELSE @,
                    !.minio = IF op = "create" THEN @ \cup {bucket_name} ELSE @,
                    !.addressed[op] =
                       Some([qdrant_collection |-> collection,
                             minio_bucket |-> IF op = "get_vectors" THEN None
                                              ELSE Some(bucket_name)])]
  /\ UNCHANGED <<coreVars, chunked, parsed, migr, boot>>

NextNames ==
  \/ \E name \in CollectionNames, database \in OwnerDatabases :
       create_collection(name, database)
  \/ delete_collection
  \/ \E op \in RecordOps : RecordOperation(op)

SpecNames == Init /\ [][NextNames]_vars

\* ======================================================= claims on names
\* C30: the record operations on a collection address the vector collection
\* and the bucket that its creation derived, {database}__{collection} and
\* {database}-{collection} for a collection owned by a database and
\* {collection} and cortex-{collection} otherwise, and its deletion drops
\* that vector collection
C30_OperationsAddressDerivedNames ==
  /\ named.schema # None =>
       LET s == named.schema[1] IN
       /\ named.created[1].qdrant_collection =
            IF s.database # None THEN s.database[1] \o <<"_", "_">> \o s.name ELSE s.name
       /\ named.created[1].minio_bucket =
            IF s.database # None THEN s.database[1] \o <<"-">> \o s.name
            ELSE <<"c", "o", "r", "t", "e", "x", "-">> \o s.name
       /\ \A op \in RecordOps :
            named.addressed[op] # None =>
               /\ named.addressed[op][1].qdrant_collection =
                    named.created[1].qdrant_collection
               /\ named.addressed[op][1].minio_bucket \in
                    {None, Some(named.created[1].minio_bucket)}
  /\ (named.dropped # None /\ named.created # None) =>
       named.dropped[1] = named.created[1].qdrant_collection

\* ====================================================== search and query
\* models/record.py 11, 16: the largest limit of a search and of a query
SearchLimitMax == 100
QueryLimitMax == 500

\* the records searched
SearchIds == {1, 2}

\* the requests that created them: record 1 a long text and the year 2024,
\* record 2 a short text, the year 2022 and a plain-text upload for doc
SearchSeeds ==
  [r \in SearchIds |->
     IF r = 1 THEN [data |-> MkData(Some(TextLong), Some(<<"2", "0", "2", "4">>)),
                    files |-> EmptyDict]
     ELSE [data |-> MkData(Some(TextShort), Some(<<"2", "0", "2", "2">>)),
           files |-> [n \in {"doc"} |-> PlainFile]]]

\* _prepare_record 94-180: the row data of a create request, the converted
\* values and the object paths of the uploads kept in the row
SeedRowData(r) ==
  LET seed == SearchSeeds[r] IN
  Merge([n \in DOMAIN seed.data |-> convert_value(FieldByName(n), seed.data[n])],
        [n \in {m \in DOMAIN seed.files : "postgres" \in FieldByName(m).store_in} |->
           ObjectPath(r, seed.files[n])])

\* _prepare_record 182-207: the points of a create request, those of the
\* chunks of its text and those of the fragments of its upload
SeedPoints(r) ==
  LET seed == SearchSeeds[r]
      base == build_initial_payload_base(seed.data)
  IN BuildPoints(r, "content",
                 chunk_text(seed.data["content"], schema.config.chunk_size,
                            schema.config.chunk_overlap), base)
       \cup UNION { BuildPoints(r, n, FileFragments(FieldByName(n), seed.files[n]), base)
                    : n \in DOMAIN seed.files }

\* the state the create requests leave; one update call follows, and no
\* store call of it fails
InitSearch ==
  /\ rows = [r \in SearchIds |-> RowOf(SeedRowData(r))]
  /\ bucket = UNION { {ObjectPath(r, SearchSeeds[r].files[n]) : n \in DOMAIN SearchSeeds[r].files}
                      : r \in SearchIds }
  /\ points = UNION { SeedPoints(r) : r \in SearchIds }
  /\ call = Idle
  /\ last = NoneYet
  /\ fileOf = [r \in SearchIds |->
                 [n \in FileFieldNames |->
                    IF n \in DOMAIN SearchSeeds[r].files /\ n \in Columns
                      THEN Some(SearchSeeds[r].files[n]) ELSE None]]
  /\ clean = SearchIds
  /\ nextId = 3
  /\ ncalls = MaxCalls - 1
  /\ faults = MaxFaults
  /\ vcoll = TRUE
  /\ other = Idle
  /\ ExtInit

\* a filter value: a scalar, or a dict of operators
Scalar(v) == [is_dict |-> FALSE, value |-> v, items |-> EmptyDict]
Dict(items) == [is_dict |-> TRUE, value |-> 0, items |-> items]

\* the filter maps of the requests
FilterInputs ==
  { None, Some(EmptyDict),
    Some([k \in {"year"} |-> Scalar(2024)]),
    Some([k \in {"year"} |-> Dict([op \in {"$gte"} |-> 2023])]),
    Some([k \in {"year"} |-> Dict([op \in {"$lt"} |-> 2023])]),
    Some([k \in {"year"} |-> Dict([op \in {"$gt", "$lte"} |->
                                     IF op = "$gt" THEN 2021 ELSE 2023])]) }

\* qdrant.py 208-234: None for no filters and for no condition, otherwise
\* the conditions of Filter(must=...): a match per scalar value and a range
\* of the operators $gte, $lte, $gt, $lt per dict value
build_filter(filters) ==
  IF filters = None \/ DOMAIN filters[1] = {} THEN None
  ELSE LET range_params(value) ==
             [op \in DOMAIN value.items \cap {"$gte", "$lte", "$gt", "$lt"} |->
                value.items[op]]
           conditions ==
             { [key |-> key, is_range |-> filters[1][key].is_dict,
                match |-> filters[1][key].value,
                range |-> range_params(filters[1][key])] :
               key \in { k \in DOMAIN filters[1] :
                           filters[1][k].is_dict =>
                              DOMAIN range_params(filters[1][k]) # {} } }
       IN IF conditions = {} THEN None ELSE Some(conditions)

\* vector-store semantics: a point satisfies a condition when its payload
\* holds a value under the key that matches, or lies in the range
Satisfies(payload, condition) ==
  /\ condition.key \in DOMAIN payload
  /\ payload[condition.key] # None
  /\ LET v == payload[condition.key][1] IN
     IF ~condition.is_range THEN v = condition.match
     ELSE \A op \in DOMAIN condition.range :
            CASE op = "$gte" -> v >= condition.range[op]
              [] op = "$lte" -> v <= condition.range[op]
              [] op = "$gt" -> v > condition.range[op]
              [] op = "$lt" -> v < condition.range[op]

\* the scores the vector store gives points for a query
Scores == {1, 2}

\* the orders in which a set can be listed
Orderings(S) ==
  { s \in [1..Cardinality(S) -> S] : \A i, j \in 1..Cardinality(S) : i # j => s[i] # s[j] }

\* qdrant.py 191-206: the points that pass the filter, as ScoredPoints
\* listed by descending score, the first limit of them
SearchResults(filters, limit, score, order) ==
  LET listed == [i \in DOMAIN order |->
                   [id |-> order[i].id, payload |-> order[i].payload,
                    score |-> score[order[i]]]]
  IN Take(listed, limit)

Matching(filters) ==
  LET filter_obj == build_filter(filters) IN
  { p \in points : filter_obj # None => \A c \in filter_obj[1] : Satisfies(p.payload, c) }

RECURSIVE Aggregate(_, _)
\* search.py 47-68: the entries of aggregated in insertion order, one per
\* record_id, with the maximum score and the highlights of the points
Aggregate(qdrant_results, aggregated) ==
  IF qdrant_results = <<>> THEN aggregated
  ELSE LET point == Head(qdrant_results)
           payload == point.payload
           record_id == IF "record_id" \in DOMAIN payload THEN payload["record_id"] ELSE None
           highlight == [field |-> payload["field"], text |-> payload["text"],
                         chunk_index |-> payload["chunk_index"], score |-> point.score]
           at == { i \in DOMAIN aggregated : aggregated[i].record_id = record_id }
       IN IF record_id = None THEN Aggregate(Tail(qdrant_results), aggregated)
          ELSE IF at = {}
            THEN Aggregate(Tail(qdrant_results),
                           Append(aggregated, [record_id |-> record_id,
                                               score |-> point.score,
                                               highlights |-> <<highlight>>]))
            ELSE LET i == CHOOSE k \in at : TRUE IN
                 Aggregate(Tail(qdrant_results),
                           [aggregated EXCEPT ![i].score = Max(@, point.score),
                                              ![i].highlights = Append(@, highlight)])

\* a sequence without its i-th element
Without(seq, i) == SubSeq(seq, 1, i - 1) \o SubSeq(seq, i + 1, Len(seq))

RECURSIVE ordered_ascending(_)
\* mutant of ordered: ascending score
ordered_ascending(aggregated) ==
  IF aggregated = <<>> THEN <<>>
  ELSE LET i == CHOOSE k \in DOMAIN aggregated :
                  /\ \A j \in DOMAIN aggregated : aggregated[j].score >= aggregated[k].score
                  /\ \A j \in 1..(k - 1) : aggregated[j].score > aggregated[k].score
       IN <<aggregated[i]>> \o ordered_ascending(Without(aggregated, i))

RECURSIVE ordered(_)
\* search.py 70: sorted(aggregated.items(), key=score, reverse=True), a
\* stable sort: entries of equal score keep their order
ordered(aggregated) ==
  IF aggregated = <<>> THEN <<>>
  ELSE LET i == CHOOSE k \in DOMAIN aggregated :
                  /\ \A j \in DOMAIN aggregated : aggregated[j].score <= aggregated[k].score
                  /\ \A j \in 1..(k - 1) : aggregated[j].score < aggregated[k].score
       IN <<aggregated[i]>> \o ordered(Without(aggregated, i))

\* search.py 100-108: the presigned URLs of the file fields kept in the
\* object store whose path the row holds; raised when presigning one fails
generate_file_urls(record, unsignable) ==
  LET fields == { n \in FileFieldNames :
                    "minio" \in FieldByName(n).store_in /\ RowGet(record, n) # None }
  IN [raised |-> \E n \in fields : RowGet(record, n)[1] \in unsignable,
      urls |-> [n \in fields |-> Some(<<"presigned", RowGet(record, n)[1]>>)]]

\* mutant of SearchService_hybrid_search: a record whose row is missing is
\* returned all the same, without a row
SearchService_hybrid_search_keep(qdrant_results, limit, unsignable) ==
  LET aggregated == Aggregate(qdrant_results, <<>>)
      found == Take(ordered(aggregated), limit)
      missing(e) == e.record_id[1] \notin DOMAIN rows \/ rows[e.record_id[1]] = NoRow
      files_payload(e) == IF missing(e) THEN [raised |-> FALSE, urls |-> EmptyDict]
                          ELSE generate_file_urls(rows[e.record_id[1]], unsignable)
  IN [raised |-> \E i \in DOMAIN found : files_payload(found[i]).raised,
      results |-> [i \in DOMAIN found |->
                     [id |-> found[i].record_id[1], score |-> found[i].score,
                      record |-> IF missing(found[i]) THEN NoRow
                                 ELSE rows[found[i].record_id[1]],
                      files |-> files_payload(found[i]).urls,
                      highlights |-> found[i].highlights]],
      total |-> Len(found)]

\* search.py 45-98: hybrid_search on the points the vector store returned
SearchService_hybrid_search(qdrant_results, limit, unsignable) ==
  LET aggregated == Aggregate(qdrant_results, <<>>)
      record_ids == Take(ordered(aggregated), limit)
      found == SelectSeq(record_ids,
                         LAMBDA e : e.record_id[1] \in DOMAIN rows
                                      /\ rows[e.record_id[1]] # NoRow)
      files_payload(e) == generate_file_urls(rows[e.record_id[1]], unsignable)
  IN [raised |-> \E i \in DOMAIN found : files_payload(found[i]).raised,
      results |-> [i \in DOMAIN found |->
                     [id |-> found[i].record_id[1], score |-> found[i].score,
                      record |-> rows[found[i].record_id[1]],
                      files |-> files_payload(found[i]).urls,
                      highlights |-> found[i].highlights]],
      total |-> Len(found)]

\* the response to a search or a query: the request's limit and filters, the
\* limit the service was called with, the points the vector store returned
SearchAnswer(endpoint, status, filters, limit, served_limit, qdrant_results, unsignable, body, total) ==
  [endpoint |-> endpoint, status |-> status, filters |-> filters, limit |-> limit,
   served_limit |-> served_limit, qdrant_results |-> qdrant_results,
   unsignable |-> unsignable, body |-> body, total |-> total]

\* api/search.py 16-21, models/record.py 8-11: POST /collections/docs/search.
\* A limit outside [1, 100] fails the validation of SearchRequest (422); an
\* exception other than ValueError leaves the handler (500)
hybrid_search(filters, limit, unsignable) ==
  /\ IF limit < 1 \/ limit > SearchLimitMax
       THEN resp' = SearchAnswer("search", 422, filters, limit, None, <<>>,
                                 unsignable, <<>>, 0)
       ELSE \E score \in [Matching(filters) -> Scores], order \in Orderings(Matching(filters)) :
              /\ \A i, j \in DOMAIN order : i < j => score[order[i]] >= score[order[j]]
              /\ LET qdrant_results == SearchResults(filters, limit * 5, score, order)
                     r == SearchService_hybrid_search(qdrant_results, limit, unsignable)
                 IN resp' = SearchAnswer("search", IF r.raised THEN 500 ELSE 200,
                                         filters, limit, Some(limit), qdrant_results,
                                         unsignable,
                                         IF r.raised THEN <<>> ELSE r.results,
                                         IF r.raised THEN 0 ELSE r.total)
  /\ UNCHANGED <<storeVars, emb, api_keys, key_cache, now, issued, header>>

RECURSIVE RowsNewestFirst(_)
\* ORDER BY created_at DESC: the rows from the latest id down
RowsNewestFirst(n) ==
  IF n = 0 THEN <<>>
  ELSE (IF n \in DOMAIN rows /\ rows[n] # NoRow THEN <<rows[n]>> ELSE <<>>)
         \o RowsNewestFirst(n - 1)

\* api/search.py 24-31, models/record.py 14-17, postgres.py 453-495: POST
\* /collections/docs/query without filters.  A limit outside [1, 500] fails
\* the validation of QueryRequest (422)
query_records(limit, offset) ==
  /\ IF limit < 1 \/ limit > QueryLimitMax
       THEN resp' = SearchAnswer("query", 422, Some(EmptyDict), limit, None, <<>>, {}, <<>>, 0)
       ELSE LET found == RowsNewestFirst(nextId)
                results == SubSeq(found, offset + 1, Min(Len(found), offset + limit))
            IN resp' = SearchAnswer("query", 200, Some(EmptyDict), limit, Some(limit),
                                    <<>>, {}, results, Len(results))
  /\ UNCHANGED <<storeVars, emb, api_keys, key_cache, now, issued, header>>

\* the year an update request sets
YearUpdates ==
  { [n \in {"year"} |-> y] : y \in {<<"2", "0", "2", "1">>, <<"2", "0", "2", "3">>} }

\* one search or query is answered, while or after a record's year is updated
NextSearch ==
  /\ resp = NoResponse
  /\ \/ \E r \in SearchIds, d \in YearUpdates : StartUpdate(r, d, EmptyDict)
     \/ FetchCurrent
     \/ UpdateScalar
     \/ \E ok \in BOOLEAN : UpdateRow(ok)
     \/ \E filters \in FilterInputs,
           limit \in {0, 1, 2, SearchLimitMax, SearchLimitMax + 1},
           unsignable \in SUBSET bucket :
          hybrid_search(filters, limit, unsignable)
     \/ \E limit \in {0, 1, QueryLimitMax, QueryLimitMax + 1}, offset \in {0, 1} :
          query_records(limit, offset)

SpecSearch == InitSearch /\ [][NextSearch]_vars

\* a search that was answered with results
SearchServed == resp.endpoint = "search" /\ resp.status = 200

\* the positions of the returned points that belong to a record
ReturnedPointsOf(record_id) ==
  { k \in DOMAIN resp.qdrant_results :
      resp.qdrant_results[k].payload["record_id"] = Some(record_id) }

\* C21: hybrid_search returns each record id at most once, at most limit
\* results, in non-increasing order of score; each result's score is the
\* maximum score among the points returned for that record, and its
\* highlights hold every returned point of that record
C21_SearchAggregatesByRecord ==
  SearchServed =>
    /\ Len(resp.body) <= resp.limit
    /\ \A i, j \in DOMAIN resp.body :
         i < j => /\ resp.body[i].id # resp.body[j].id
                  /\ resp.body[i].score >= resp.body[j].score
    /\ \A i \in DOMAIN resp.body :
         LET mine == ReturnedPointsOf(resp.body[i].id)
             highlights == resp.body[i].highlights
         IN /\ mine # {}
            /\ \E k \in mine : resp.qdrant_results[k].score = resp.body[i].score
            /\ \A k \in mine : resp.qdrant_results[k].score <= resp.body[i].score
            /\ Len(highlights) = Cardinality(mine)
            /\ \A k \in mine :
                 \E h \in DOMAIN highlights :
                   highlights[h] = [field |-> resp.qdrant_results[k].payload["field"],
                                    text |-> resp.qdrant_results[k].payload["text"],
                                    chunk_index |-> resp.qdrant_results[k].payload["chunk_index"],
                                    score |-> resp.qdrant_results[k].score]

\* a search with limit 2 returned two records of different scores, the
\* first with two highlights of different scores
C21_Witness ==
  /\ SearchServed
  /\ resp.limit = 2
  /\ Len(resp.body) = 2
  /\ resp.body[1].score > resp.body[2].score
  /\ Len(resp.body[1].highlights) = 2
  /\ resp.body[1].highlights[1].score # resp.body[1].highlights[2].score

\* C22: hybrid_search never fails because a presigned URL cannot be
\* generated: the search is answered with its results, and the URL of a file
\* that cannot be presigned is null
C22_PresignFailureDegradesToNull ==
  (resp.endpoint = "search" /\ resp.served_limit # None) =>
    /\ resp.status = 200
    /\ \A i \in DOMAIN resp.body : \A n \in DOMAIN resp.body[i].files :
         RowGet(resp.body[i].record, n)[1] \in resp.unsignable =>
           resp.body[i].files[n] = None

\* a record's value satisfies every condition of the filters
RecordSatisfies(record, filters) ==
  \A key \in DOMAIN filters :
    /\ RowGet(record, key) # None
    /\ LET v == RowGet(record, key)[1] IN
       IF ~filters[key].is_dict THEN v = filters[key].value
       ELSE \A op \in DOMAIN filters[key].items :
              CASE op = "$gte" -> v >= filters[key].items[op]
                [] op = "$lte" -> v <= filters[key].items[op]
                [] op = "$gt" -> v > filters[key].items[op]
                [] op = "$lt" -> v < filters[key].items[op]

\* C23: hybrid_search with a filter on a scalar field returns only records
\* that satisfy it, by equality or by range
C23_FilteredSearchReturnsMatchingRecords ==
  (SearchServed /\ resp.filters # None) =>
    \A i \in DOMAIN resp.body : RecordSatisfies(resp.body[i].record, resp.filters[1])

\* the same, for searches that no update call precedes or overlaps
C23_HoldsWithoutUpdate ==
  (SearchServed /\ resp.filters # None /\ call = Idle /\ ncalls = MaxCalls - 1) =>
    \A i \in DOMAIN resp.body : RecordSatisfies(resp.body[i].record, resp.filters[1])

\* the same, for searches after a completed update call
C23_HoldsAfterUpdate ==
  (SearchServed /\ resp.filters # None /\ call = Idle) =>
    \A i \in DOMAIN resp.body : RecordSatisfies(resp.body[i].record, resp.filters[1])

\* a limit brought into [1, top]
Clamped(limit, top) == Max(1, Min(limit, top))

\* C24: a search is served with its limit clamped into [1, 100] and a query
\* with its limit clamped into [1, 500]; no limit is rejected
C24_LimitIsClamped ==
  /\ resp.endpoint = "search" =>
       resp.status # 422 /\ resp.served_limit = Some(Clamped(resp.limit, SearchLimitMax))
  /\ resp.endpoint = "query" =>
       resp.status # 422 /\ resp.served_limit = Some(Clamped(resp.limit, QueryLimitMax))

\* the same, for limits inside the range
C24_LimitInRangeIsServed ==
  /\ (resp.endpoint = "search" /\ resp.limit \in 1..SearchLimitMax) =>
       resp.served_limit = Some(resp.limit) /\ Len(resp.body) <= resp.limit
  /\ (resp.endpoint = "query" /\ resp.limit \in 1..QueryLimitMax) =>
       resp.status = 200 /\ resp.served_limit = Some(resp.limit)
         /\ Len(resp.body) <= resp.limit

\* ============================================ _prepare_record on its own
\* a field of a schema
MkField(name, type, vectorize, store_in) ==
  [name |-> name, type |-> type, required |-> FALSE, vectorize |-> vectorize,
   store_in |-> store_in, unique |-> FALSE]

\* a schema of the collection docs with the fields given
MkSchema(fields) == [name |-> schema.name, fields |-> fields, config |-> schema.config]

\* The schemas prepared for: the collection of the handlers; a vectorised text
\* followed by a vectorised file whose path goes to the vector payload; the
\* same two fields in the other order; a payload string named text and a
\* payload int named chunk_index, beside a vectorised text
PayloadSchemas ==
  { schema,
    MkSchema(<< MkField("content", "text", TRUE, {"postgres"}),
                MkField("doc", "file", TRUE, {"minio", "qdrant_payload"}) >>),
    MkSchema(<< MkField("doc", "file", TRUE, {"minio", "qdrant_payload"}),
                MkField("content", "text", TRUE, {"postgres"}) >>),
    MkSchema(<< MkField("text", "string", FALSE, {"postgres", "qdrant_payload"}),
                MkField("content", "text", TRUE, {"postgres"}) >>),
    MkSchema(<< MkField("content", "text", TRUE, {"postgres"}),
                MkField("chunk_index", "int", FALSE, {"postgres", "qdrant_payload"}) >>) }

\* the values a request may carry for a field of a schema
ValuesFor(field) ==
  CASE field.type = "text" -> Texts
    [] field.type = "int" -> {<<"7">>}
    [] field.type = "string" -> {<<"x">>}
    [] OTHER -> UploadsFor("doc")

\* the request bodies and the uploads for a schema: a value for any subset
\* of the scalar fields, an upload for any subset of the file fields
InputsFor(sch, file) ==
  LET names == { sch.fields[i].name :
                   i \in { j \in DOMAIN sch.fields : (sch.fields[j].type = "file") = file } }
      field(n) == sch.fields[CHOOSE i \in DOMAIN sch.fields : sch.fields[i].name = n]
  IN { d \in UNION { [S -> UNION { ValuesFor(field(n)) : n \in names }] : S \in SUBSET names } :
         \A n \in DOMAIN d : d[n] \in ValuesFor(field(n)) }

\* records.py 479-494: _build_initial_payload_base for a schema
initial_payload_base(sch, data) ==
  LET keys == { i \in DOMAIN sch.fields :
                  /\ "qdrant_payload" \in sch.fields[i].store_in
                  /\ sch.fields[i].type \notin {"file", "array"}
                  /\ sch.fields[i].name \in DOMAIN data
                  /\ ~ConvertRaises(sch.fields[i], data[sch.fields[i].name]) }
      field(n) == sch.fields[CHOOSE i \in keys : sch.fields[i].name = n]
  IN [n \in { sch.fields[i].name : i \in keys } |->
        Some(serialize_for_payload(convert_value(field(n), data[n])))]

RECURSIVE PrepareFields(_, _, _, _, _, _)
\* records.py 112-197: the loop over schema.fields from field i on, with the
\* payload_base, the file_paths and the qdrant_points built so far
PrepareFields(sch, record_id, data, files, i, built) ==
  IF i > Len(sch.fields) THEN built
  ELSE
    LET field == sch.fields[i]
        payload(name, value) == Merge(built.payload_base, [n \in {name} |-> Some(value)])
    IN
    IF field.type = "file" THEN
      IF field.name \notin DOMAIN files
        THEN PrepareFields(sch, record_id, data, files, i + 1, built)
        ELSE
          LET upload == files[field.name]
              object_path == ObjectPath(record_id, upload)
              text_fragments == FileFragments(field, upload)
              payload_base == IF "qdrant_payload" \in field.store_in
                                THEN payload(field.name, object_path)
                                ELSE built.payload_base
          IN PrepareFields(sch, record_id, data, files, i + 1,
               [payload_base |-> payload_base,
                file_paths |-> Merge(built.file_paths,
                                     [n \in {field.name} |-> object_path]),
                qdrant_points |->
                  built.qdrant_points \cup
                    (IF text_fragments # <<>> /\ Vectorised(field)
                       THEN BuildPoints(record_id, field.name, text_fragments, payload_base)
                       ELSE {})])
    ELSE
      IF field.name \notin DOMAIN data
        THEN PrepareFields(sch, record_id, data, files, i + 1, built)
        ELSE
          LET converted == convert_value(field, data[field.name])
              payload_base == IF "qdrant_payload" \in field.store_in
                                THEN payload(field.name, serialize_for_payload(converted))
                                ELSE built.payload_base
          IN PrepareFields(sch, record_id, data, files, i + 1,
               [payload_base |-> payload_base,
                file_paths |-> built.file_paths,
                qdrant_points |->
                  built.qdrant_points \cup
                    (IF Vectorised(field)
                       THEN BuildPoints(record_id, field.name,
                                        chunk_text(converted, sch.config.chunk_size,
                                                   sch.config.chunk_overlap),
                                        payload_base)
                       ELSE {})])

\* records.py 94-207: _prepare_record, the embedding provider configured
prepare_record(sch, record_id, data, files) ==
  PrepareFields(sch, record_id, data, files, 1,
                [payload_base |-> initial_payload_base(sch, data),
                 file_paths |-> EmptyDict, qdrant_points |-> {}])

\* the record ids uuid4 hands out
PreparedIds == {1, 2}

\* create_record 49-50 calls _prepare_record for a new record id
PrepareRecord(sch, record_id, data, files) ==
  /\ ~prepared.returned
  /\ LET r == prepare_record(sch, record_id, data, files) IN
     prepared' = [returned |-> TRUE, schema |-> sch, record_id |-> record_id,
                  data |-> data, files |-> files, file_paths |-> r.file_paths,
                  qdrant_points |-> r.qdrant_points]
  /\ UNCHANGED <<rows, bucket, points, call, last, fileOf, clean, nextId, ncalls, faults,
                 vcoll, other, emb, authVars, notes, chunked, parsed, migr, boot, named,
                 searching, loop, dbs, arr>>

NextPayload ==
  \E sch \in PayloadSchemas, record_id \in PreparedIds :
    \E data \in InputsFor(sch, FALSE), files \in InputsFor(sch, TRUE) :
      PrepareRecord(sch, record_id, data, files)

SpecPayload == Init /\ [][NextPayload]_vars

\* the file fields of the prepared schema whose path goes to the payload
PayloadFileFields ==
  { prepared.schema.fields[i].name :
      i \in { j \in DOMAIN prepared.schema.fields :
                /\ prepared.schema.fields[j].type = "file"
                /\ "qdrant_payload" \in prepared.schema.fields[j].store_in
                /\ prepared.schema.fields[j].name \in DOMAIN prepared.files } }

\* C31: in create, the object path of every uploaded file field declared
\* vector_payload is in the payload of every point built for the record,
\* also of the points of vectorised fields that precede it in the schema
C31_FilePathInEveryPayload ==
  prepared.returned =>
    \A n \in PayloadFileFields : \A p \in prepared.qdrant_points :
      /\ n \in DOMAIN p.payload
      /\ p.payload[n] = Some(prepared.file_paths[n])

\* the same, for the points of the file field itself and of the fields after it
C31_HoldsFromTheFileFieldOn ==
  prepared.returned =>
    \A n \in PayloadFileFields : \A p \in prepared.qdrant_points :
      LET at(name) == CHOOSE i \in DOMAIN prepared.schema.fields :
                        prepared.schema.fields[i].name = name
      IN at(p.id[2]) >= at(n) =>
           n \in DOMAIN p.payload /\ p.payload[n] = Some(prepared.file_paths[n])

\* the text fragments of a field of the prepared record
PreparedFragments(name) ==
  LET field == prepared.schema.fields[CHOOSE i \in DOMAIN prepared.schema.fields :
                                        prepared.schema.fields[i].name = name]
  IN IF field.type = "file" THEN FileFragments(field, prepared.files[name])
     ELSE chunk_text(prepared.data[name], prepared.schema.config.chunk_size,
                     prepared.schema.config.chunk_overlap)

\* C32: each point's payload has record_id the owning record, collection the
\* collection name, field the source field, chunk_index the chunk position
\* and text the chunk text; no user field stored in the payload overwrites them
C32_BaseKeysOfPayload ==
  prepared.returned =>
    \A p \in prepared.qdrant_points :
      /\ p.payload["record_id"] = Some(prepared.record_id)
      /\ p.payload["collection"] = Some(prepared.schema.name)
      /\ p.payload["field"] = Some(p.id[2])
      /\ p.payload["chunk_index"] = Some(p.id[3])
      /\ p.payload["text"] = Some(PreparedFragments(p.id[2])[p.id[3] + 1])

\* the same, for schemas without a payload field named as a base key
C32_HoldsWithoutBaseKeyNames ==
  (prepared.returned /\
     \A i \in DOMAIN prepared.schema.fields :
       prepared.schema.fields[i].name \notin
         {"record_id", "collection", "field", "chunk_index", "text"}) =>
    \A p \in prepared.qdrant_points :
      /\ p.payload["record_id"] = Some(prepared.record_id)
      /\ p.payload["collection"] = Some(prepared.schema.name)
      /\ p.payload["field"] = Some(p.id[2])
      /\ p.payload["chunk_index"] = Some(p.id[3])
      /\ p.payload["text"] = Some(PreparedFragments(p.id[2])[p.id[3] + 1])

\* ========================================= update with a file of the same name
\* the file fields an update call that just returned successfully replaced:
\* those with an upload, a stored path and a column
ReplacedFileFields ==
  IF call = Idle /\ last.op = "update" /\ last.outcome = "ok"
    THEN { n \in DOMAIN last.files : RowGet(last.current, n) # None }
    ELSE {}

\* C35: an update that replaces a file field with an upload whose filename
\* equals that of the stored file leaves the uploaded blob in the bucket at
\* the record's path
C35_SameNameUploadSurvives ==
  \A n \in ReplacedFileFields :
    RowGet(last.current, n) = Some(ObjectPath(last.rid, last.files[n])) =>
      ObjectPath(last.rid, last.files[n]) \in bucket

\* the same, for an upload under another filename than the stored file's
C35_OtherNameUploadSurvives ==
  \A n \in ReplacedFileFields :
    RowGet(last.current, n) # Some(ObjectPath(last.rid, last.files[n])) =>
      ObjectPath(last.rid, last.files[n]) \in bucket

\* ============================================ payloads after a scalar update
\* the scalar fields kept both in the row and in the vector payload
PayloadColumns ==
  { n \in ScalarFieldNames \cap Columns : "qdrant_payload" \in FieldByName(n).store_in }

\* C36: after an update changed the value of a scalar field declared
\* vector_payload, every point of the record carries the new value, the
\* current relational value of the field
C36_PayloadFollowsScalarUpdate ==
  (call = Idle /\ last.op = "update" /\ last.outcome = "ok") =>
    \A n \in PayloadColumns \cap DOMAIN last.data :
      \A p \in PointsOf(points, last.rid) :
        n \in DOMAIN p.payload /\ p.payload[n] = rows[last.rid][n]

\* ================================== a search while a record is being deleted
\* the state outside the responses and the calls followed on their own
restVars == <<rows, bucket, points, call, last, fileOf, clean, nextId, ncalls, faults,
              vcoll, other, emb, notes, chunked, parsed, migr, boot, named>>

\* search.py 41-45: the query is embedded and the vector store searched for
\* limit * 5 points; the handler is suspended until the answer arrives
SearchQdrant(filters, limit) ==
  /\ searching.pc = "idle"
  /\ \E score \in [Matching(filters) -> Scores], order \in Orderings(Matching(filters)) :
       /\ \A i, j \in DOMAIN order : i < j => score[order[i]] >= score[order[j]]
       /\ searching' = [pc |-> "fetch", filters |-> filters, limit |-> limit,
                        qdrant_results |-> SearchResults(filters, limit * 5, score, order),
                        present |-> {}]
  /\ UNCHANGED <<restVars, authVars, prepared, loop, dbs, arr>>

\* search.py 47-98: the points are aggregated, the rows of the first limit
\* records fetched and the results built from the rows found
SearchHydrate(unsignable) ==
  /\ searching.pc = "fetch"
  /\ LET r == SearchService_hybrid_search(searching.qdrant_results, searching.limit,
                                          unsignable)
     IN resp' = SearchAnswer("search", IF r.raised THEN 500 ELSE 200, searching.filters,
                             searching.limit, Some(searching.limit),
                             searching.qdrant_results, unsignable,
                             IF r.raised THEN <<>> ELSE r.results,
                             IF r.raised THEN 0 ELSE r.total)
  /\ searching' = [searching EXCEPT
                     !.pc = "done",
                     !.present = { id \in DOMAIN rows : rows[id] # NoRow }]
  /\ UNCHANGED <<restVars, api_keys, key_cache, now, issued, header, prepared, loop, dbs, arr>>

\* one search is answered while one record is deleted
NextHydrate ==
  \/ \E filters \in {None, Some([k \in {"year"} |-> Dict([op \in {"$gte"} |-> 2023])])},
        limit \in {1, 2} :
       SearchQdrant(filters, limit)
  \/ \E unsignable \in SUBSET bucket : SearchHydrate(unsignable)
  \/ \E r \in SearchIds : StartDelete(r)
  \/ FetchCurrent
  \/ \E ok \in BOOLEAN : DeleteBlob(ok)
  \/ \E ok \in BOOLEAN : DeleteVectors(ok)
  \/ \E ok \in BOOLEAN : DeleteRow(ok)

SpecHydrate == InitSearch /\ [][NextHydrate]_vars

\* the record ids of the first limit aggregated records of the search, by
\* descending score
RankedIds ==
  LET record_ids == Take(ordered(Aggregate(searching.qdrant_results, <<>>)), searching.limit)
  IN [i \in DOMAIN record_ids |-> record_ids[i].record_id[1]]

\* C34: hybrid_search drops a result whose row is missing, keeps the
\* remaining results in their score order and reports total equal to the
\* number of results returned
C34_MissingRowsAreDropped ==
  (searching.pc = "done" /\ resp.status = 200) =>
    /\ [i \in DOMAIN resp.body |-> resp.body[i].id]
         = SelectSeq(RankedIds, LAMBDA id : id \in searching.present)
    /\ \A i, j \in DOMAIN resp.body : i < j => resp.body[i].score >= resp.body[j].score
    /\ resp.total = Len(resp.body)

\* a search with limit 2 whose vector answer held points of two records, one
\* of them deleted before the rows were fetched, returned the other
C34_Witness ==
  /\ searching.pc = "done" /\ resp.status = 200
  /\ Len(RankedIds) = 2
  /\ RankedIds[1] \notin searching.present
  /\ Len(resp.body) = 1 /\ resp.body[1].id = RankedIds[2]
  /\ resp.total = 1

\* ================================== a search over a record of many chunks
\* a text of eleven tokens: ten chunks of size 2 with overlap 1
TextEleven ==
  <<"a", " ", "b", " ", "c", " ", "d", " ", "e", " ", "f", " ", "g", " ", "h", " ",
    "i", " ", "j", " ", "k">>

\* the requests that created the records: record 1 the long text and the
\* year 2024, record 2 a one-token text and the year 2022
CoverSeeds ==
  [r \in SearchIds |->
     IF r = 1 THEN MkData(Some(TextEleven), Some(<<"2", "0", "2", "4">>))
     ELSE MkData(Some(TextShort), Some(<<"2", "0", "2", "2">>))]

\* the fragments of the text of a seeded record
CoverFragments(r) ==
  chunk_text(CoverSeeds[r]["content"], schema.config.chunk_size, schema.config.chunk_overlap)

\* the state the create requests leave; one update call follows, and no
\* store call of it fails
InitCover ==
  /\ rows = [r \in SearchIds |->
               RowOf([n \in DOMAIN CoverSeeds[r] |->
                        convert_value(FieldByName(n), CoverSeeds[r][n])])]
  /\ bucket = {}
  /\ points = UNION { BuildPoints(r, "content", CoverFragments(r),
                                  build_initial_payload_base(CoverSeeds[r]))
                      : r \in SearchIds }
  /\ call = Idle
  /\ last = NoneYet
  /\ fileOf = [r \in SearchIds |-> [n \in FileFieldNames |-> None]]
  /\ clean = SearchIds
  /\ nextId = 3
  /\ ncalls = MaxCalls - 1
  /\ faults = MaxFaults
  /\ vcoll = TRUE
  /\ other = Idle
  /\ ExtInit

\* the matching points of a record by chunk index
RecordPoints(filters, r) ==
  LET mine == { p \in Matching(filters) : p.payload["record_id"] = Some(r) }
      idxs == { p.id[3] : p \in mine }
      nth(k) == CHOOSE i \in idxs : Cardinality({ j \in idxs : j < i }) = k - 1
  IN [k \in 1..Cardinality(idxs) |-> CHOOSE p \in mine : p.id[3] = nth(k)]

\* an answer of the vector store in which every point of a record has the
\* record's score: the points of the record first, then those of the other
RecordRanking(filters, first, score) ==
  LET second == CHOOSE r \in SearchIds : r # first
      scored(r) == [k \in DOMAIN RecordPoints(filters, r) |->
                      [id |-> RecordPoints(filters, r)[k].id,
                       payload |-> RecordPoints(filters, r)[k].payload,
                       score |-> score[r]]]
  IN scored(first) \o scored(second)

\* api/search.py 16-21: POST /collections/docs/search with a valid limit,
\* answered from the first limit * 5 points of the vector store's ranking
hybrid_search_ranked(filters, limit, first, score) ==
  /\ score[first] >= score[CHOOSE r \in SearchIds : r # first]
  /\ LET qdrant_results == Take(RecordRanking(filters, first, score), limit * 5)
         r == SearchService_hybrid_search(qdrant_results, limit, {})
     IN resp' = SearchAnswer("search", 200, filters, limit, Some(limit), qdrant_results,
                             {}, r.results, r.total)
  /\ UNCHANGED <<storeVars, emb, api_keys, key_cache, now, issued, header>>

\* one search is answered, while or after a record's year is updated
NextCover ==
  /\ resp = NoResponse
  /\ \/ \E r \in SearchIds, d \in YearUpdates : StartUpdate(r, d, EmptyDict)
     \/ FetchCurrent
     \/ UpdateScalar
     \/ \E ok \in BOOLEAN : UpdateRow(ok)
     \/ \E filters \in FilterInputs, limit \in {1, 2, 3}, first \in SearchIds,
           score \in [SearchIds -> Scores] :
          hybrid_search_ranked(filters, limit, first, score)

SpecCover == InitCover /\ [][NextCover]_vars

\* the records that have at least one point matching the filters
MatchingRecords(filters) == { p.payload["record_id"][1] : p \in Matching(filters) }

\* C39: hybrid_search returns min(limit, number of distinct records with a
\* point matching the filter) results, however many chunks a record has
C39_LimitRecordsAreCovered ==
  SearchServed =>
    Len(resp.body) = Min(resp.limit, Cardinality(MatchingRecords(resp.filters)))

\* the same, for searches whose limit * 5 points cover every matching point
C39_HoldsWhenEveryPointIsFetched ==
  (SearchServed /\ Cardinality(Matching(resp.filters)) <= resp.limit * 5) =>
    Len(resp.body) = Min(resp.limit, Cardinality(MatchingRecords(resp.filters)))

\* ============================================== the key cache over time
\* the seconds that pass between two requests: a sweep interval, or the
\* second after a multiple of it, or the rest of the interval
Seconds ==
  {cleanup_interval} \cup
    (IF now % cleanup_interval = 0 THEN {1} ELSE {cleanup_interval - (now % cleanup_interval)})

\* the clock is followed until an entry set within the first sweep interval
\* has expired and been swept
CacheHorizon == ttl + 2 * cleanup_interval

\* requests with the bootstrap key, the key disabled and deleted, as time
\* passes
NextCache ==
  \/ \E a \in Presented : list_api_keys(a)
  \/ \E a \in Presented, i \in KeyIds : update_api_key(a, i, FALSE)
  \/ \E a \in Presented, i \in KeyIds : delete_api_key(a, i)
  \/ \E seconds \in Seconds : now + seconds <= CacheHorizon /\ Tick(seconds)

SpecCache == InitKeys /\ [][NextCache]_vars

\* a step leaves every cache entry as it was, or the entry was set in this
\* step from a row that is enabled and unexpired
EntriesKeepTheirAge ==
  \A e \in key_cache'.entries :
    \/ e \in key_cache.entries
    \/ /\ e.cached_at = now /\ e.ttl = ttl
       /\ \E i \in KeyIds :
            /\ api_keys[i] # None /\ api_keys[i][1].key_hash = e.key_hash
            /\ api_keys[i][1].enabled

\* a request served with a key finds the key's entry at most ttl seconds old
ServedFromFreshEntry ==
  (now' = now /\ resp' # resp /\ resp'.current_key # None) =>
    \E e \in key_cache'.entries :
      /\ e.key_hash = hash_api_key(resp'.authorization[1])
      /\ now - e.cached_at <= ttl

\* a sweep happens cleanup_interval seconds or more after the previous one
\* and leaves no entry older than its ttl
SweepIsPeriodic ==
  key_cache'.last_cleanup # key_cache.last_cleanup =>
    /\ now - key_cache.last_cleanup >= cleanup_interval
    /\ key_cache'.last_cleanup = now
    /\ \A e \in key_cache'.entries : now - e.cached_at <= e.ttl

\* C33: APIKeyCache.get never returns an entry cached more than ttl seconds
\* earlier and a hit does not extend the entry's lifetime, so a revoked key
\* is accepted no later than ttl after it was loaded from the table; the
\* sweep runs at most once per cleanup_interval and leaves no entry older
\* than its ttl
C33_CacheEntriesExpire ==
  [][EntriesKeepTheirAge /\ ServedFromFreshEntry /\ SweepIsPeriodic]_vars

\* a key no longer valid in the table was accepted from an entry exactly ttl
\* seconds old, after a sweep
C33_Witness ==
  /\ resp.current_key # None /\ ~resp.valid_at_request
  /\ key_cache.last_cleanup > 0
  /\ \E e \in key_cache.entries :
       /\ e.key_hash = hash_api_key(resp.authorization[1])
       /\ now - e.cached_at = ttl

\* a key no longer valid in the table was turned down the second after its
\* entry reached ttl
C33_TurnedDownAfterTtl ==
  /\ resp.status = 401 /\ resp.authorization # None
  /\ resp.authorization \in { issued[i] : i \in KeyIds }
  /\ now = ttl + 1

\* ======================================== update of an array field
\* the lists an update may supply
ItemUpdates == {<<>>, <<"x">>, <<"y", "z">>}

\* records.py 402-405, 440: an update call with a list for the array field
\* reaches the loop over array_updates
StartArrayUpdate(u, items) ==
  /\ arr.calls[u].pc = "idle"
  /\ arr' = [arr EXCEPT !.calls[u] = [pc |-> "delete", items |-> items, inserted |-> 0],
                        !.supplied = @ \cup {items},
                        !.interleaved = @ \/ \E v \in Updaters :
                                               arr.calls[v].pc \in {"delete", "insert"}]
  /\ UNCHANGED <<restVars, authVars, prepared, searching, loop, dbs>>

\* a statement of an update call succeeds, or fails and ends the call
Statement(ok) == ok \/ arr.failures < MaxFaults

\* postgres.py 389-394: DELETE FROM child WHERE parent_id = $1, committed on
\* its own
delete_array_items(u, ok) ==
  /\ arr.calls[u].pc = "delete"
  /\ Statement(ok)
  /\ arr' = IF ok
              THEN [arr EXCEPT !.child = <<>>,
                               !.calls[u].pc = IF arr.calls[u].items = <<>>
                                                 THEN "done" ELSE "insert"]
              ELSE [arr EXCEPT !.calls[u].pc = "failed", !.failures = @ + 1]
  /\ UNCHANGED <<restVars, authVars, prepared, searching, loop, dbs>>

\* postgres.py 396-423: one INSERT of the loop over the items, committed on
\* its own; the call returns after the last
insert_array_items(u, ok) ==
  /\ arr.calls[u].pc = "insert"
  /\ Statement(ok)
  /\ LET c == arr.calls[u]
         idx == c.inserted
     IN arr' = IF ok
                 THEN [arr EXCEPT
                         !.child = Append(@, [item_index |-> idx, item |-> c.items[idx + 1]]),
                         !.calls[u].inserted = idx + 1,
                         !.calls[u].pc = IF idx + 1 = Len(c.items) THEN "done" ELSE "insert"]
                 ELSE [arr EXCEPT !.calls[u].pc = "failed", !.failures = @ + 1]
  /\ UNCHANGED <<restVars, authVars, prepared, searching, loop, dbs>>

NextArray ==
  \/ \E u \in Updaters, items \in ItemUpdates : StartArrayUpdate(u, items)
  \/ \E u \in Updaters, ok \in BOOLEAN : delete_array_items(u, ok)
  \/ \E u \in Updaters, ok \in BOOLEAN : insert_array_items(u, ok)

SpecArray == Init /\ [][NextArray]_vars

\* every update call has returned or raised
UpdatesOver == \A u \in Updaters : arr.calls[u].pc \in {"idle", "done", "failed"}

\* C37: after any update of an array field, successful, failed between the
\* delete and the inserts, or interleaved with another update, the child rows
\* are one complete list, the previous one or one supplied by an update,
\* with item_index 0..n-1 and no duplicates
C37_ChildRowsAreOneCompleteList ==
  UpdatesOver =>
    \E items \in {PreviousItems} \cup arr.supplied :
      /\ Len(arr.child) = Len(items)
      /\ \A k \in 1..Len(items) :
           \E i \in DOMAIN arr.child : arr.child[i] = [item_index |-> k - 1, item |-> items[k]]

\* the same, for update calls that run one after the other and do not fail
C37_HoldsForSequentialUpdates ==
  (UpdatesOver /\ arr.failures = 0 /\ arr.interleaved = FALSE) =>
    \E items \in {PreviousItems} \cup arr.supplied :
      /\ Len(arr.child) = Len(items)
      /\ \A k \in 1..Len(items) :
           \E i \in DOMAIN arr.child : arr.child[i] = [item_index |-> k - 1, item |-> items[k]]

\* ======================================= create_database, delete_database
\* models/database.py 11: the names requests carry match ^[a-z][a-z0-9_]*$
DatabaseNames == {"d1", "d2", "postgres"}

\* a statement of a call succeeds, or fails and ends the call
DbStatement(ok) == ok \/ dbs.failures < MaxFaults

\* the call ends with an exception
DbRaise(ok) ==
  [dbs EXCEPT !.call.pc = "raised", !.failures = IF ok THEN @ ELSE @ + 1]

\* api/databases.py 24-38, 56-69: a request starts a call when none is under way
StartDatabaseCall(op, name) ==
  /\ dbs.call.pc \in {"idle", "returned", "raised"}
  /\ dbs' = [dbs EXCEPT !.call = [op |-> op, name |-> name,
                                  pc |-> IF op = "create" THEN "register" ELSE "lookup",
                                  registry_before |-> dbs.registry]]
  /\ UNCHANGED <<restVars, authVars, prepared, searching, loop, arr>>

\* postgres.py 543-556: INSERT INTO _cortex_databases; name is UNIQUE, so a
\* registered name raises UniqueViolationError
RegisterDatabase(ok) ==
  /\ dbs.call.pc = "register"
  /\ DbStatement(ok)
  /\ dbs' = IF ok /\ dbs.call.name \notin dbs.registry
              THEN [dbs EXCEPT !.registry = @ \cup {dbs.call.name}, !.call.pc = "create"]
              ELSE DbRaise(ok)
  /\ UNCHANGED <<restVars, authVars, prepared, searching, loop, arr>>

\* postgres.py 558-565: CREATE DATABASE on the admin connection; an existing
\* database raises DuplicateDatabaseError
CreatePhysicalDatabase(ok) ==
  /\ dbs.call.pc = "create"
  /\ DbStatement(ok)
  /\ dbs' = IF ok /\ dbs.call.name \notin dbs.physical
              THEN [dbs EXCEPT !.physical = @ \cup {dbs.call.name}, !.call.pc = "init"]
              ELSE DbRaise(ok)
  /\ UNCHANGED <<restVars, authVars, prepared, searching, loop, arr>>

\* postgres.py 567-592: the control tables of the new database are created
\* and the row returned
InitialiseDatabase(ok) ==
  /\ dbs.call.pc = "init"
  /\ DbStatement(ok)
  /\ dbs' = IF ok THEN [dbs EXCEPT !.call.pc = "returned"] ELSE DbRaise(ok)
  /\ UNCHANGED <<restVars, authVars, prepared, searching, loop, arr>>

\* databases.py 73-78: delete_database looks the name up in the registry; a
\* name not registered raises ValueError
LookupDatabase(ok) ==
  /\ dbs.call.pc = "lookup"
  /\ DbStatement(ok)
  /\ dbs' = IF ok /\ dbs.call.name \in dbs.registry
              THEN [dbs EXCEPT !.call.pc = "unregister"]
              ELSE DbRaise(ok)
  /\ UNCHANGED <<restVars, authVars, prepared, searching, loop, arr>>

\* postgres.py 630-637: DELETE FROM _cortex_databases WHERE name = $1
UnregisterDatabase(ok) ==
  /\ dbs.call.pc = "unregister"
  /\ DbStatement(ok)
  /\ dbs' = IF ok
              THEN [dbs EXCEPT !.registry = @ \ {dbs.call.name}, !.call.pc = "drop"]
              ELSE DbRaise(ok)
  /\ UNCHANGED <<restVars, authVars, prepared, searching, loop, arr>>

\* postgres.py 639-654: DROP DATABASE IF EXISTS on the admin connection; the
\* database the admin connection has open cannot be dropped
DropPhysicalDatabase(ok) ==
  /\ dbs.call.pc = "drop"
  /\ DbStatement(ok)
  /\ dbs' = IF ok /\ dbs.call.name \notin ServerDatabases
              THEN [dbs EXCEPT !.physical = @ \ {dbs.call.name}, !.call.pc = "returned"]
              ELSE DbRaise(ok)
  /\ UNCHANGED <<restVars, authVars, prepared, searching, loop, arr>>

NextDatabases ==
  \/ \E op \in {"create", "delete"}, name \in DatabaseNames : StartDatabaseCall(op, name)
  \/ \E ok \in BOOLEAN : RegisterDatabase(ok)
  \/ \E ok \in BOOLEAN : CreatePhysicalDatabase(ok)
  \/ \E ok \in BOOLEAN : InitialiseDatabase(ok)
  \/ \E ok \in BOOLEAN : LookupDatabase(ok)
  \/ \E ok \in BOOLEAN : UnregisterDatabase(ok)
  \/ \E ok \in BOOLEAN : DropPhysicalDatabase(ok)

SpecDatabases == Init /\ [][NextDatabases]_vars

\* no create_database or delete_database call is under way
DatabaseCallsOver == dbs.call.pc \in {"idle", "returned", "raised"}

\* C38: after any sequence of create_database and delete_database calls,
\* failed ones included, a name is in the registry iff the physical database
\* of that name exists (the databases of the server itself aside), and a
\* create_database that fails leaves the registry unchanged
C38_RegistryMatchesPhysicalDatabases ==
  DatabaseCallsOver =>
    /\ \A name \in DatabaseNames \ ServerDatabases :
         name \in dbs.registry <=> name \in dbs.physical
    /\ (dbs.call.op = "create" /\ dbs.call.pc = "raised") =>
         dbs.registry = dbs.call.registry_before

\* the same, when no statement fails and no name of a server database is used
C38_HoldsWithoutFailures ==
  (DatabaseCallsOver /\ dbs.failures = 0 /\ dbs.registry \cap ServerDatabases = {}
     /\ dbs.call.name \notin ServerDatabases) =>
    /\ \A name \in DatabaseNames \ ServerDatabases :
         name \in dbs.registry <=> name \in dbs.physical
    /\ (dbs.call.op = "create" /\ dbs.call.pc = "raised") =>
         dbs.registry = dbs.call.registry_before

\* ========================================= the loop of chunk_text, by steps
\* mutant of clamp_overlap: the overlap is used as given
clamp_overlap_as_given(chunk_size, chunk_overlap) == chunk_overlap

\* chunking.py 10-11: an overlap >= chunk_size is replaced
clamp_overlap(chunk_size, chunk_overlap) ==
  IF chunk_overlap >= chunk_size THEN Max(0, chunk_size \div 4) ELSE chunk_overlap

\* chunking.py 8-15: chunk_text is called with chunk_size >= 1 and reaches
\* its loop
ChunkTextEnter(text, chunk_size, chunk_overlap) ==
  /\ loop.pc = "idle"
  /\ loop' = [pc |-> "loop", tokens |-> Split(text), chunk_size |-> chunk_size,
              given_overlap |-> chunk_overlap,
              chunk_overlap |-> clamp_overlap(chunk_size, chunk_overlap),
              start |-> 0, chunks |-> <<>>]
  /\ UNCHANGED <<restVars, authVars, prepared, searching, dbs, arr>>

\* chunking.py 16-24: one iteration of while start < len(tokens)
ChunkTextIterate ==
  /\ loop.pc = "loop"
  /\ loop.start < Len(loop.tokens)
  /\ LET end == Min(Len(loop.tokens), loop.start + loop.chunk_size)
         chunk_tokens == SubSeq(loop.tokens, loop.start + 1, end)
     IN loop' = IF chunk_tokens = <<>>
                  THEN [loop EXCEPT !.pc = "returned"]
                  ELSE IF end = Len(loop.tokens)
                    THEN [loop EXCEPT !.pc = "returned",
                                      !.chunks = Append(@, Join(chunk_tokens))]
                    ELSE [loop EXCEPT !.chunks = Append(@, Join(chunk_tokens)),
                                      !.start = Max(0, end - loop.chunk_overlap)]
  /\ UNCHANGED <<restVars, authVars, prepared, searching, dbs, arr>>

\* chunking.py 16, 25: the loop condition fails and chunks is returned
ChunkTextExit ==
  /\ loop.pc = "loop"
  /\ loop.start >= Len(loop.tokens)
  /\ loop' = [loop EXCEPT !.pc = "returned"]
  /\ UNCHANGED <<restVars, authVars, prepared, searching, dbs, arr>>

NextLoop ==
  \/ \E text \in ChunkTexts, chunk_size \in 1..MaxSize,
        chunk_overlap \in (0 - 1)..MaxOverlap :
       ChunkTextEnter(text, chunk_size, chunk_overlap)
  \/ ChunkTextIterate
  \/ ChunkTextExit

\* the interpreter runs the loop on: an enabled iteration or exit is taken
SpecLoop ==
  Init /\ [][NextLoop]_vars /\ WF_vars(ChunkTextIterate) /\ WF_vars(ChunkTextExit)

\* the window start grows on every iteration that does not leave the loop
StartIncreases ==
  (loop.pc = "loop" /\ loop'.pc = "loop") => loop'.start > loop.start

C40_ClampedAndNegativeReturn ==
  /\ loop.pc = "returned"
  /\ Len(loop.chunks) >= 2
  /\ loop.given_overlap >= loop.chunk_size \/ loop.given_overlap < 0

====
